---- MODULE Spec2Model ----
(***************************************************************************)
(* A model of rslox: the tree-walking pipeline (scanner, recursive-descent *)
(* parser, resolver, environment frames, evaluator) as driven by           *)
(* tree_walking::runner::run.                                              *)
(*                                                                         *)
(* Source text is a TLA+ string (ASCII only, so byte and char indices      *)
(* coincide).  Numbers are f64 in the source; the model keeps the integral *)
(* part as an Int and the fractional digits of a literal separately, and   *)
(* the programs that are interpreted use integral literals only.           *)
(***************************************************************************)
EXTENDS Integers, Sequences, FiniteSets, TLC

VARIABLES
  pc,          \* position inside run(): which step comes next
  parts,       \* the pieces the source was assembled from
  source,      \* the String handed to run()
  scanner,     \* the Scanner that collect() drains
  tokens,      \* Vec<Token> collected from the scanner
  current,     \* Parser::current
  statements,  \* Vec<Stmt> returned by Parser::parse
  errors,      \* Parser::errors at parse() return time
  counter,     \* the process-wide COUNTER of parser.rs
  locals,      \* Locals returned by Resolver::resolve_program
  ownInit,     \* ids of the reads that met the condition of resolver.rs:52
  heap,        \* the environment frames allocated so far (Rc<RefCell<Environment>>)
  out,         \* the lines written to stdout by NativePrintln
  fresh,       \* the (frame, name) pairs that assign() created, not overwrote
  index,       \* position of the `for stmt in &program` loop of interpret_program
  interpreted, \* Result of interpret_program: "none", "ok", "err"
  error,       \* the RuntimeError / panic message of the failing statement
  result,      \* outcome of run(): "none", "Ok", "Err", "panic", "bound"
  vm,          \* the VM backend: its Parser (with the Chunk) and its VM
  envCall      \* a call of Environment::assign on its own: frames, arguments,
               \* and, once made, the frames after it and the value returned

vars == <<pc, parts, source, scanner, tokens, current, statements, errors,
          counter, locals, ownInit, heap, out, fresh, index, interpreted,
          error, result, vm, envCall>>

----------------------------------------------------------------------------
(* Bounds *)

\* iterations of `while` plus user-function calls one run may perform
MaxFuel == 12

\* fragments one program is assembled from
MaxParts == 3

----------------------------------------------------------------------------
(* scanner.rs *)

Digits == {"0", "1", "2", "3", "4", "5", "6", "7", "8", "9"}

Letters ==
  {"a", "b", "c", "d", "e", "f", "g", "h", "i", "j", "k", "l", "m",
   "n", "o", "p", "q", "r", "s", "t", "u", "v", "w", "x", "y", "z",
   "A", "B", "C", "D", "E", "F", "G", "H", "I", "J", "K", "L", "M",
   "N", "O", "P", "Q", "R", "S", "T", "U", "V", "W", "X", "Y", "Z"}

is_ascii_digit(c) == c \in Digits

is_alphabetic(c) == c \in Letters

is_ascii_alphanumeric(c) == c \in Letters \cup Digits

DigitValue(c) ==
  CASE c = "0" -> 0 [] c = "1" -> 1 [] c = "2" -> 2 [] c = "3" -> 3
    [] c = "4" -> 4 [] c = "5" -> 5 [] c = "6" -> 6 [] c = "7" -> 7
    [] c = "8" -> 8 [] c = "9" -> 9

RECURSIVE DecimalValue(_, _)
DecimalValue(str, acc) ==
  IF str = "" THEN acc
  ELSE DecimalValue(SubSeq(str, 2, Len(str)),
                    acc * 10 + DigitValue(SubSeq(str, 1, 1)))

RECURSIVE PositionOf(_, _, _)
PositionOf(c, str, i) ==
  IF i > Len(str) THEN 0
  ELSE IF SubSeq(str, i, i) = c THEN i
  ELSE PositionOf(c, str, i + 1)

\* value.parse::<f64>() on digits[.digits]: never fails on such a string
ParseF64(value) ==
  LET dot == PositionOf(".", value, 1) IN
    IF dot = 0
    THEN [ok |-> TRUE, value |-> DecimalValue(value, 0), frac |-> ""]
    ELSE [ok |-> TRUE, value |-> DecimalValue(SubSeq(value, 1, dot - 1), 0),
          frac |-> SubSeq(value, dot + 1, Len(value))]

Keywords ==
  [if |-> "If", else |-> "Else", true |-> "True", false |-> "False",
   nil |-> "Nil", while |-> "While", for |-> "For", and |-> "And",
   or |-> "Or", fun |-> "Fun", return |-> "Return", class |-> "Class",
   this |-> "This", super |-> "Super", var |-> "Var", print |-> "Print"]

ScannerNew(src) ==
  [source |-> src, line |-> 1, index |-> 0, was_eof_yielded |-> FALSE]

None == [some |-> FALSE]

Some(c) == [some |-> TRUE, v |-> c]

peek_char(s, nth) ==
  IF s.index + nth + 1 <= Len(s.source)
  THEN Some(SubSeq(s.source, s.index + nth + 1, s.index + nth + 1))
  ELSE None

\* next_char: the scanner after consuming one char (unchanged at the end)
Consume(s) ==
  IF peek_char(s, 0).some THEN [s EXCEPT !.index = s.index + 1] ELSE s

PeekIs(s, nth, c) == peek_char(s, nth).some /\ peek_char(s, nth).v = c

add_token(s, kind, lexeme) ==
  [s |-> s, some |-> TRUE, ok |-> TRUE,
   token |-> [kind |-> kind, lexeme |-> lexeme, line |-> s.line]]

Kind(type) == [type |-> type]

\* `while let Some(char) = self.next_char_if(pred) { value.push(char) }`
\* kind selects the predicate: "digit", "alnum", "notquote", "notnewline"
RECURSIVE TakeWhile(_, _, _)
TakeWhile(s, kind, value) ==
  LET p == peek_char(s, 0)
      holds ==
        p.some /\
        CASE kind = "digit" -> is_ascii_digit(p.v)
          [] kind = "alnum" -> is_ascii_alphanumeric(p.v)
          [] kind = "notquote" -> p.v # "\""
          [] kind = "notnewline" -> p.v # "\n"
  IN IF holds THEN TakeWhile(Consume(s), kind, value \o p.v)
     ELSE [s |-> s, value |-> value]

TwoChar(s, char, double, single) ==
  IF PeekIs(s, 0, "=")
  THEN add_token(Consume(s), Kind(double), char)
  ELSE add_token(s, Kind(single), char)

Singles ==
  [c \in {"(", ")", "{", "}", ",", ".", "-", "+", ";", "*", "?", ":"} |->
     CASE c = "(" -> "LeftParen" [] c = ")" -> "RightParen"
       [] c = "{" -> "LeftBrace" [] c = "}" -> "RightBrace"
       [] c = "," -> "Comma" [] c = "." -> "Dot"
       [] c = "-" -> "Minus" [] c = "+" -> "Plus"
       [] c = ";" -> "Semicolon" [] c = "*" -> "Star"
       [] c = "?" -> "Question" [] c = ":" -> "Colon"]

ScanNumber(s, char) ==
  LET whole == TakeWhile(s, "digit", char)
      fraction ==
        IF PeekIs(whole.s, 0, ".") /\ peek_char(whole.s, 1).some
             /\ is_ascii_digit(peek_char(whole.s, 1).v)
        THEN TakeWhile(Consume(whole.s), "digit", whole.value \o ".")
        ELSE whole
      parsed == ParseF64(fraction.value)
  IN IF parsed.ok
     THEN add_token(fraction.s,
                    [type |-> "Number", value |-> parsed.value,
                     frac |-> parsed.frac],
                    fraction.value)
     ELSE [s |-> fraction.s, some |-> TRUE, ok |-> FALSE]

ScanWord(s, char) ==
  LET word == TakeWhile(s, "alnum", char)
      kind == IF word.value \in DOMAIN Keywords
              THEN Kind(Keywords[word.value])
              ELSE [type |-> "Identifier", name |-> word.value]
  IN add_token(word.s, kind, word.value)

\* an iterator that yields Eof at every call made at the end of the source
EndOfSourceAlwaysEof(s0) ==
  add_token([s0 EXCEPT !.was_eof_yielded = TRUE], Kind("Eof"), "")

\* next_token() once the `while let` loop is over: Eof once, then None
EndOfSource(s0) ==
  IF s0.was_eof_yielded
  THEN [s |-> s0, some |-> FALSE]
  ELSE add_token([s0 EXCEPT !.was_eof_yielded = TRUE], Kind("Eof"), "")

RECURSIVE next_token(_)
next_token(s0) ==
  LET next == peek_char(s0, 0)
      s == Consume(s0)
      char == next.v
  IN
  IF ~next.some THEN EndOfSource(s0)
  ELSE IF char \in DOMAIN Singles THEN add_token(s, Kind(Singles[char]), char)
  ELSE IF char = "!" THEN TwoChar(s, char, "BangEqual", "Bang")
  ELSE IF char = "=" THEN TwoChar(s, char, "EqualEqual", "Eqal")
  ELSE IF char = "<" THEN TwoChar(s, char, "LessEqual", "Less")
  ELSE IF char = ">" THEN TwoChar(s, char, "GreaterEqual", "Greater")
  ELSE IF char = "/"
       THEN IF PeekIs(s, 0, "/")
            THEN next_token(TakeWhile(s, "notnewline", "").s)
            ELSE add_token(s, Kind("Slash"), char)
  ELSE IF char \in {" ", "\r", "\t"} THEN next_token(s)
  ELSE IF char = "\n" THEN next_token([s EXCEPT !.line = s.line + 1])
  ELSE IF char = "\""
       THEN LET body == TakeWhile(s, "notquote", "")
            IN add_token(Consume(body.s),
                         [type |-> "String", value |-> body.value],
                         body.value)
  ELSE IF is_ascii_digit(char) THEN ScanNumber(s, char)
  ELSE IF is_alphabetic(char) THEN ScanWord(s, char)
  ELSE next_token(s)

----------------------------------------------------------------------------
(* parser.rs *)

ParserNew(toks, cnt) ==
  [tokens |-> toks, current |-> 0, errors |-> <<>>, counter |-> cnt,
   panic |-> FALSE]

peek(p) == p.tokens[p.current + 1]

is_at_and(p) == peek(p).kind.type = "Eof"

\* previous() indexes tokens[current - 1]: a panic when current is 0
advance(p) ==
  LET q == IF ~is_at_and(p) THEN [p EXCEPT !.current = p.current + 1] ELSE p
  IN IF q.current = 0 THEN [q EXCEPT !.panic = TRUE] ELSE q

previous(p) == p.tokens[p.current]

\* the condition of match_: the upcoming token has this (data-less) kind
check(p, type) == peek(p).kind.type = type

\* get_id(): COUNTER.fetch_add(1)
get_id(p) == [p EXCEPT !.counter = p.counter + 1]

POk(p, node) == [p |-> p, ok |-> TRUE, node |-> node]

PErr(p, err) == [p |-> p, ok |-> FALSE, err |-> err]

\* consume(token, err)
consume(p, type, err) ==
  IF check(p, type) THEN POk(advance(p), type) ELSE PErr(p, err)

LiteralExpr(value) == [type |-> "Literal", value |-> value]

BinaryExpr(operator, left, right) ==
  [type |-> "Binary", operator |-> operator, left |-> left, right |-> right]

\* the operators each left-associative level accepts, by token type
LevelOperators ==
  [comma |-> [Comma |-> "Comma"],
   logical_or |-> [Or |-> "Or"],
   logical_and |-> [And |-> "And"],
   equality |-> [EqualEqual |-> "EqualEqual", BangEqual |-> "BangEqual"],
   comparison |-> [Less |-> "Less", LessEqual |-> "LessEqual",
                   Greater |-> "Greater", GreaterEqual |-> "GreaterEqual"],
   term |-> [Plus |-> "Plus", Minus |-> "Minus"],
   factor |-> [Star |-> "Star", Slash |-> "Slash"]]

RECURSIVE declaration(_), function_declaration(_), statement(_),
          block(_, _), while_(_), if_(_), expr_stmt(_),
          variable_declaration(_), expression(_), assignment(_),
          logical_or(_), logical_and(_), ternary(_), comma(_), equality(_),
          comparison(_), term(_), factor(_), unary(_), primary(_),
          CallLoop(_, _), finish_call(_), ArgumentLoop(_, _),
          Operand(_, _), LeftAssoc(_, _, _)

\* Each parsing function below is split where the source uses `?` on the
\* result of a nested parsing function: the part after the `?` is an operator
\* of its own that receives that result.

\* the operand parser of each left-associative level
Operand(level, p) ==
  CASE level = "comma" -> assignment(p)
    [] level = "logical_or" -> logical_and(p)
    [] level = "logical_and" -> ternary(p)
    [] level = "equality" -> comparison(p)
    [] level = "comparison" -> term(p)
    [] level = "term" -> factor(p)
    [] level = "factor" -> unary(p)

\* `expr = Binary { operator, left: expr, right: operand()? }`, then the loop
LeftAssocMore(level, operator, expr, right) ==
  IF right.ok
  THEN LeftAssoc(level, right.p, BinaryExpr(operator, expr, right.node))
  ELSE right

\* `loop { if match_(op) { expr = Binary{op, expr, operand()?} } else break }`
LeftAssoc(level, p, expr) ==
  IF peek(p).kind.type \in DOMAIN LevelOperators[level]
  THEN LeftAssocMore(level, LevelOperators[level][peek(p).kind.type], expr,
                     Operand(level, advance(p)))
  ELSE POk(p, expr)

\* `let mut expr = operand()?;`, then the loop
LeftAssocFrom(level, first) ==
  IF first.ok THEN LeftAssoc(level, first.p, first.node) ELSE first

expression(p) == comma(p)

comma(p) == LeftAssocFrom("comma", assignment(p))

logical_or(p) == LeftAssocFrom("logical_or", logical_and(p))

logical_and(p) == LeftAssocFrom("logical_and", ternary(p))

equality(p) == LeftAssocFrom("equality", comparison(p))

comparison(p) == LeftAssocFrom("comparison", term(p))

term(p) == LeftAssocFrom("term", factor(p))

factor(p) == LeftAssocFrom("factor", unary(p))

\* assignment() after `let r_value = self.assignment()?`
AssignmentTo(target, r_value) ==
  IF ~r_value.ok THEN r_value
  ELSE IF target.type = "Literal" /\ target.value.type = "Identifier"
  THEN POk(get_id(r_value.p),
           [type |-> "Assignment", name |-> target.value.name,
            expression |-> r_value.node, id |-> r_value.p.counter])
  ELSE PErr(r_value.p, "LValueMustBeAnIdentifier")

\* assignment() after `let l_value = self.logical_or()?`
AssignmentFrom(l_value) ==
  IF ~l_value.ok THEN l_value
  ELSE IF check(l_value.p, "Eqal")
  THEN AssignmentTo(l_value.node, assignment(advance(l_value.p)))
  ELSE l_value

assignment(p) == AssignmentFrom(logical_or(p))

\* the else branch parsed one level too low
TernaryElseEquality(p) == equality(p)

\* the parser of the else branch: `let false_case = self.ternary()?`
TernaryElseOperand(p) == ternary(p)

\* ternary() after `let false_case = self.ternary()?`
TernaryFalse(conditional, true_case, false_case) ==
  IF ~false_case.ok THEN false_case
  ELSE POk(false_case.p,
           [type |-> "Ternary", conditional |-> conditional,
            true_case |-> true_case, false_case |-> false_case.node])

\* ternary() after `let true_case = self.equality()?`
TernaryTrue(conditional, true_case) ==
  IF ~true_case.ok THEN true_case
  ELSE IF check(true_case.p, "Colon")
  THEN TernaryFalse(conditional, true_case.node,
                    TernaryElseOperand(advance(true_case.p)))
  ELSE PErr(true_case.p, "MissingColonInTernary")

\* ternary() after `let conditional = self.equality()?`
TernaryFrom(conditional) ==
  IF ~conditional.ok THEN conditional
  ELSE IF check(conditional.p, "Question")
  THEN TernaryTrue(conditional.node, equality(advance(conditional.p)))
  ELSE conditional

ternary(p) == TernaryFrom(equality(p))

\* unary() after `let expr = self.unary()?`
UnaryOf(operator, operand) ==
  IF ~operand.ok THEN operand
  ELSE POk(operand.p,
           [type |-> "Unary", operator |-> operator, expr |-> operand.node])

unary(p) ==
  IF check(p, "Bang") \/ check(p, "Minus")
  THEN UnaryOf(peek(p).kind.type, unary(advance(p)))
  ELSE primary(p)

\* primary(), LeftParen arm, after `let expr = self.expression()?`
GroupingOf(expr) ==
  IF ~expr.ok THEN expr
  ELSE IF check(expr.p, "RightParen")
  THEN POk(advance(expr.p), [type |-> "Grouping", expr |-> expr.node])
  ELSE PErr(expr.p, "MissingRightParen")

\* `let mut primary = match self.peek().kind.clone() { ... };`
PrimaryMatch(p) ==
  LET kind == peek(p).kind
      type == kind.type
  IN
  IF type = "Number"
  THEN POk(advance(p), LiteralExpr([type |-> "Number", value |-> kind.value,
                                    frac |-> kind.frac]))
  ELSE IF type = "String"
  THEN POk(advance(p), LiteralExpr([type |-> "String", value |-> kind.value]))
  ELSE IF type \in {"True", "False", "Nil"}
  THEN POk(advance(p), LiteralExpr([type |-> type]))
  ELSE IF type = "Identifier"
  THEN POk(advance(get_id(p)),
           LiteralExpr([type |-> "Identifier", name |-> kind.name,
                        id |-> p.counter]))
  ELSE IF type = "LeftParen" THEN GroupingOf(expression(advance(p)))
  ELSE PErr(p, "UnexpectedTokenInExpression")

\* primary(): the match, then the loop of calls
PrimaryCalls(matched) ==
  IF matched.ok THEN CallLoop(matched.p, matched.node) ELSE matched

primary(p) == PrimaryCalls(PrimaryMatch(p))

\* the loop of primary(), after `let arguments = self.finish_call()?`
CallOf(callee, arguments) ==
  IF ~arguments.ok THEN arguments
  ELSE CallLoop(arguments.p,
                [type |-> "Call", function |-> callee,
                 arguments |-> arguments.node])

\* the trailing loop of primary(): one Call per "(" arguments ")"
CallLoop(p, callee) ==
  IF check(p, "LeftParen") THEN CallOf(callee, finish_call(advance(p)))
  ELSE POk(p, callee)

\* finish_call() after its loop: consume(RightParen)?; Ok(arguments)
CloseCall(arguments) ==
  IF ~arguments.ok THEN arguments
  ELSE IF check(arguments.p, "RightParen")
  THEN POk(advance(arguments.p), arguments.node)
  ELSE PErr(arguments.p, "MissingRightParen")

finish_call(p) ==
  IF check(p, "RightParen") THEN POk(advance(p), <<>>)
  ELSE CloseCall(ArgumentLoop(p, <<>>))

\* the loop of finish_call(), after `arguments.push(self.assignment()?)`
ArgumentOf(arguments, argument) ==
  IF ~argument.ok THEN argument
  ELSE IF check(argument.p, "Comma")
  THEN ArgumentLoop(advance(argument.p), Append(arguments, argument.node))
  ELSE POk(argument.p, Append(arguments, argument.node))

ArgumentLoop(p, arguments) == ArgumentOf(arguments, assignment(p))

\* expr_stmt() after `let expr = self.expression()?`
ExprStmtOf(expr) ==
  IF ~expr.ok THEN expr
  ELSE IF check(expr.p, "Semicolon")
  THEN POk(advance(expr.p), [type |-> "Expression", expression |-> expr.node])
  ELSE PErr(expr.p, "MissingSemicolon")

expr_stmt(p) == ExprStmtOf(expression(p))

\* variable_declaration() after `let initializer = self.expression()?`
DeclarationOf(name, initializer) ==
  IF ~initializer.ok THEN initializer
  ELSE IF check(initializer.p, "Semicolon")
  THEN POk(advance(initializer.p),
           [type |-> "Declaration", name |-> name,
            initializer |-> initializer.node])
  ELSE PErr(initializer.p, "MissingSemicolon")

variable_declaration(p) ==
  IF peek(p).kind.type # "Identifier"
  THEN PErr(p, "VariableDeclarationMissingIdentifier")
  ELSE IF ~check(advance(p), "Eqal")
  THEN PErr(advance(p), "VariableDeclarationMissingAssignment")
  ELSE DeclarationOf(peek(p).kind.name, expression(advance(advance(p))))

\* match_parameter_identifier and the loop of parameters()
RECURSIVE parameters(_, _)
parameters(p, acc) ==
  IF peek(p).kind.type # "Identifier"
  THEN PErr(p, "ExpectedParameterIdentifier")
  ELSE LET named == advance(p)
           list == Append(acc, peek(p).kind.name)
       IN IF check(named, "Comma") THEN parameters(advance(named), list)
          ELSE POk(named, list)

\* the loop of block(), after `self.declaration()?`
BlockMore(stmts, decl) ==
  block(decl.p, IF decl.some THEN Append(stmts, decl.node) ELSE stmts)

\* block(): declarations up to the closing brace
block(p, stmts) ==
  IF ~check(p, "RightBrace") /\ ~is_at_and(p)
  THEN BlockMore(stmts, declaration(p))
  ELSE IF check(p, "RightBrace") THEN POk(advance(p), stmts)
  ELSE PErr(p, "MissingRightBrace")

BlockStmt(stmts) == [type |-> "Block", statements |-> stmts]

\* function_declaration() after `let body = self.block()?`
FunctionOf(name, params, body) ==
  IF ~body.ok THEN body
  ELSE POk(body.p, [type |-> "FunDeclaration", name |-> name,
                    parameters |-> params, body |-> body.node])

\* function_declaration() from `let parameters = ...` on
FunctionParameters(name, open) ==
  LET params ==
        IF check(open.p, "RightParen") THEN POk(advance(open.p), <<>>)
        ELSE LET list == parameters(open.p, <<>>) IN
               IF ~list.ok THEN list
               ELSE LET close == consume(list.p, "RightParen",
                                  "MissingParametersDeclarationOpeningParen")
                    IN IF ~close.ok THEN close ELSE POk(close.p, list.node)
  IN
  IF ~params.ok THEN params ELSE
  LET brace == consume(params.p, "LeftBrace", "MissingBodyOpeningBrace") IN
  IF ~brace.ok THEN brace
  ELSE FunctionOf(name, params.node, block(brace.p, <<>>))

function_declaration(p) ==
  IF peek(p).kind.type # "Identifier"
  THEN PErr(p, "MissingFunctionDeclarationIdentifier")
  ELSE
  LET open == consume(advance(p), "LeftParen",
                      "MissingParametersDeclarationOpeningParen")
  IN IF ~open.ok THEN open
     ELSE FunctionParameters(peek(p).kind.name, open)

\* while_() after `let body = self.block()?`
WhileOf(condition, body) ==
  IF ~body.ok THEN body
  ELSE POk(body.p, [type |-> "While", condition |-> condition,
                    statement |-> BlockStmt(body.node)])

\* while_() after `let condition = self.expression()?`
WhileCondition(condition) ==
  IF ~condition.ok THEN condition ELSE
  LET close == consume(condition.p, "RightParen", "MissingRightParen") IN
  IF ~close.ok THEN close ELSE
  LET brace == consume(close.p, "LeftBrace", "WhileBodyNotEnclosedInBlock") IN
  IF ~brace.ok THEN brace
  ELSE WhileOf(condition.node, block(brace.p, <<>>))

while_(p) ==
  LET open == consume(p, "LeftParen", "MissingWhileConditionLeftParen") IN
  IF ~open.ok THEN open ELSE WhileCondition(expression(open.p))

\* if_() after the `self.block()?` of the else branch
IfElse(condition, true_case, else_case) ==
  IF ~else_case.ok THEN else_case
  ELSE POk(else_case.p,
           [type |-> "If", condition |-> condition,
            true_case |-> BlockStmt(true_case),
            false_case |-> Some(BlockStmt(else_case.node))])

\* if_() after `let true_case = self.block()?`
IfTrue(condition, true_case) ==
  IF ~true_case.ok THEN true_case
  ELSE IF check(true_case.p, "Else")
  THEN LET ebrace == consume(advance(true_case.p), "LeftBrace",
                             "ElseBodyNotEnclosedInBlock")
       IN IF ~ebrace.ok THEN ebrace
          ELSE IfElse(condition, true_case.node, block(ebrace.p, <<>>))
  ELSE POk(true_case.p,
           [type |-> "If", condition |-> condition,
            true_case |-> BlockStmt(true_case.node), false_case |-> None])

\* if_() after `let condition = self.expression()?`
IfCondition(condition) ==
  IF ~condition.ok THEN condition ELSE
  LET close == consume(condition.p, "RightParen", "MissingRightParen") IN
  IF ~close.ok THEN close ELSE
  LET brace == consume(close.p, "LeftBrace", "IfBodyNotEnclosedInBlock") IN
  IF ~brace.ok THEN brace
  ELSE IfTrue(condition.node, block(brace.p, <<>>))

if_(p) ==
  LET open == consume(p, "LeftParen", "MissingIfConditionLeftParen") IN
  IF ~open.ok THEN open ELSE IfCondition(expression(open.p))

\* statement(), LeftBrace arm, after `let statements = self.block()?`
BlockOf(stmts) ==
  IF ~stmts.ok THEN stmts ELSE POk(stmts.p, BlockStmt(stmts.node))

statement(p) ==
  IF check(p, "LeftBrace") THEN BlockOf(block(advance(p), <<>>))
  ELSE IF check(p, "While") THEN while_(advance(p))
  ELSE IF check(p, "If") THEN if_(advance(p))
  ELSE expr_stmt(p)

\* the loop of synchronize(), after its leading advance()
RECURSIVE synchronize_loop(_)
synchronize_loop(p) ==
  IF is_at_and(p) THEN p
  ELSE IF previous(p).kind.type = "Semicolon" THEN p
  ELSE IF peek(p).kind.type \in {"Fun", "Var"} THEN p
  ELSE synchronize_loop(advance(p))

\* a synchronize that leaves the cursor where the error was found
synchronize_in_place(p) == p

synchronize(p) == synchronize_loop(advance(p))

report_error(p, err) == [p EXCEPT !.errors = Append(p.errors, err)]

\* declaration(): `stmt.map(Some).or_else(...)`: Ok(Some(stmt)), or Ok(None)
\* after report_error and synchronize
DeclarationResult(stmt) ==
  IF stmt.ok THEN [p |-> stmt.p, some |-> TRUE, node |-> stmt.node]
  ELSE [p |-> synchronize(report_error(stmt.p, stmt.err)), some |-> FALSE]

\* declaration(): `let stmt = if self.match_(Var) {...} else if ... ;`
declaration_stmt(p) ==
  IF check(p, "Var") THEN variable_declaration(advance(p))
  ELSE IF check(p, "Fun") THEN function_declaration(advance(p))
  ELSE statement(p)

declaration(p) == DeclarationResult(declaration_stmt(p))

\* parse(), after its loop: the empty program when any error was collected
parse_keeps_statements(errs, stmts) == stmts

\* parse(), after its loop: `if !self.errors.is_empty() { Ok(vec![]) }`
parse(errs, stmts) == IF errs # <<>> THEN <<>> ELSE stmts

----------------------------------------------------------------------------
(* resolver.rs *)

\* HashMap::insert
Insert(map, key, value) ==
  [k \in DOMAIN map \cup {key} |-> IF k = key THEN value ELSE map[k]]

EmptyMap == <<>>

\* scopes: [natives, top-level]; panic is set by resolve_local and ends
\* the process; own_init collects the reads that meet resolver.rs:52
ResolverNew ==
  [scopes |-> <<[n \in {"println", "clock"} |-> TRUE], EmptyMap>>,
   locals |-> EmptyMap, panic |-> FALSE, own_init |-> {}]

begin_scope(r) == [r EXCEPT !.scopes = Append(r.scopes, EmptyMap)]

end_scope(r) == [r EXCEPT !.scopes = SubSeq(r.scopes, 1, Len(r.scopes) - 1)]

declare(r, name) ==
  IF r.scopes = <<>> THEN r
  ELSE [r EXCEPT !.scopes[Len(r.scopes)] = Insert(@, name, FALSE)]

define(r, name) ==
  IF r.scopes = <<>> THEN r
  ELSE [r EXCEPT !.scopes[Len(r.scopes)] = Insert(@, name, TRUE)]

\* whether a scope holds Some(&true) for the name
DefinedIn(scope, name) == name \in DOMAIN scope /\ scope[name]

\* resolve_local letting an unknown name pass
ResolveMissIgnored(r, expr_id) == r

\* what resolve_local does when no scope has the name DEFINED
ResolveMiss(r, expr_id) == [r EXCEPT !.panic = TRUE]

\* resolve_local counting the scopes from one instead of zero
resolve_local_off_by_one(r, name, expr_id) ==
  LET n == Len(r.scopes)
      hits == {d \in 0..(n - 1) : DefinedIn(r.scopes[n - d], name)}
  IN IF hits # {}
     THEN LET distance_from_last == CHOOSE d \in hits : \A e \in hits : d <= e
          IN [r EXCEPT !.locals = Insert(@, expr_id, distance_from_last + 1)]
     ELSE ResolveMiss(r, expr_id)

\* resolve_local: innermost scope first
resolve_local(r, name, expr_id) ==
  LET n == Len(r.scopes)
      hits == {d \in 0..(n - 1) : DefinedIn(r.scopes[n - d], name)}
  IN IF hits # {}
     THEN LET distance_from_last == CHOOSE d \in hits : \A e \in hits : d <= e
          IN [r EXCEPT !.locals = Insert(@, expr_id, distance_from_last)]
     ELSE ResolveMiss(r, expr_id)

\* the condition of resolver.rs:52, whose body is a TODO
OwnInitializerRead(r, name) ==
  /\ r.scopes # <<>>
  /\ name \in DOMAIN r.scopes[Len(r.scopes)]
  /\ r.scopes[Len(r.scopes)][name] = FALSE

\* what the resolver does with a read that meets OwnInitializerRead
OwnInitializerAction(r, name, id) ==
  resolve_local([r EXCEPT !.own_init = @ \cup {id}], name, id)

RECURSIVE resolve_expr(_, _), resolve_exprs(_, _, _), resolve_stmt(_, _),
          resolve_stmts(_, _, _), define_params(_, _, _)

resolve_exprs(r, exprs, i) ==
  IF i > Len(exprs) THEN r
  ELSE resolve_exprs(resolve_expr(r, exprs[i]), exprs, i + 1)

resolve_expr(r, expr) ==
  IF r.panic THEN r
  ELSE CASE expr.type = "Ternary" ->
         resolve_expr(resolve_expr(resolve_expr(r, expr.conditional),
                                   expr.true_case),
                      expr.false_case)
    [] expr.type = "Binary" ->
         resolve_expr(resolve_expr(r, expr.left), expr.right)
    [] expr.type = "Unary" -> resolve_expr(r, expr.expr)
    [] expr.type = "Grouping" -> resolve_expr(r, expr.expr)
    [] expr.type = "Literal" ->
         IF expr.value.type = "Identifier"
         THEN IF OwnInitializerRead(r, expr.value.name)
              THEN OwnInitializerAction(r, expr.value.name, expr.value.id)
              ELSE resolve_local(r, expr.value.name, expr.value.id)
         ELSE r
    [] expr.type = "Assignment" ->
         LET inner == resolve_expr(r, expr.expression) IN
           IF inner.panic THEN inner
           ELSE resolve_local(inner, expr.name, expr.id)
    [] expr.type = "Call" ->
         resolve_exprs(resolve_expr(r, expr.function), expr.arguments, 1)

resolve_stmts(r, stmts, i) ==
  IF i > Len(stmts) THEN r
  ELSE resolve_stmts(resolve_stmt(r, stmts[i]), stmts, i + 1)

define_params(r, params, i) ==
  IF i > Len(params) THEN r
  ELSE define_params(define(declare(r, params[i]), params[i]), params, i + 1)

resolve_stmt(r, stmt) ==
  IF r.panic THEN r
  ELSE CASE stmt.type = "Expression" -> resolve_expr(r, stmt.expression)
    [] stmt.type = "Declaration" ->
         LET init == resolve_expr(declare(r, stmt.name), stmt.initializer) IN
           IF init.panic THEN init ELSE define(init, stmt.name)
    [] stmt.type = "FunDeclaration" ->
         LET inner == resolve_stmts(
                        define_params(
                          begin_scope(define(declare(r, stmt.name),
                                             stmt.name)),
                          stmt.parameters, 1),
                        stmt.body, 1)
         IN IF inner.panic THEN inner ELSE end_scope(inner)
    [] stmt.type = "Block" ->
         LET inner == resolve_stmts(begin_scope(r), stmt.statements, 1) IN
           IF inner.panic THEN inner ELSE end_scope(inner)
    [] stmt.type = "While" ->
         resolve_stmt(resolve_expr(r, stmt.condition), stmt.statement)
    [] stmt.type = "If" ->
         LET then == resolve_stmt(resolve_expr(r, stmt.condition),
                                  stmt.true_case)
         IN IF stmt.false_case.some
            THEN resolve_stmt(then, stmt.false_case.v)
            ELSE then

resolve_program(program) == resolve_stmts(ResolverNew, program, 1)

----------------------------------------------------------------------------
(* environment.rs: frames live in a heap, a handle is an index into it,   *)
(* parent 0 is None                                                        *)

EnvironmentNew(parent) == [values |-> EmptyMap, parent |-> parent]

\* a block that runs in the frame it was entered from
AllocNothing(hp, env) == [heap |-> hp, handle |-> env.parent]

\* Rc::new(RefCell::new(env)): the heap with the frame, and its handle
Alloc(hp, env) == [heap |-> Append(hp, env), handle |-> Len(hp) + 1]

\* a walk that follows one parent link at most
FrameAtOneLink(hp, env, distance) ==
  IF distance = 0 THEN env ELSE hp[env].parent

\* execute_at / execute_at_mut: the frame `distance` parent links above env;
\* 0 stands for the 'cant find a parent env' panic
RECURSIVE FrameAt(_, _, _)
FrameAt(hp, env, distance) ==
  IF distance = 0 THEN env
  ELSE IF hp[env].parent = 0 THEN 0
  ELSE FrameAt(hp, hp[env].parent, distance - 1)

\* define(identifier, value) on the frame env
EnvDefine(hp, env, identifier, value) ==
  [hp EXCEPT ![env].values = Insert(@, identifier, value)]

\* an assign() that writes to the frame it is called on
AssignTargetOwnFrame(hp, env, distance) == env

\* the frame assign() writes to, given the frame the walk ended on
AssignTarget(hp, env, distance) == FrameAt(hp, env, distance)

\* assign(identifier, value, distance): the heap after the insert
EnvAssign(hp, env, identifier, value, distance) ==
  EnvDefine(hp, AssignTarget(hp, env, distance), identifier, value)

\* get(identifier, distance): values.get(identifier) of the frame reached
EnvGet(hp, env, identifier, distance) ==
  LET frame == FrameAt(hp, env, distance) IN
    IF identifier \in DOMAIN hp[frame].values
    THEN Some(hp[frame].values[identifier])
    ELSE None

\* assign(identifier, value, distance): what the closure returns
EnvAssignReturns(hp, env, identifier, value, distance) == value

----------------------------------------------------------------------------
(* interpreter.rs *)

NumberValue(n) == [t |-> "Number", n |-> n]

StringValue(str) == [t |-> "String", s |-> str]

BoolValue(b) == [t |-> "Bool", b |-> b]

NilValue == [t |-> "Nil"]

NativeValue(which) == [t |-> "Function", callable |-> which]

\* Fun::new: the function owns one frame, created here
FunValue(params, body, name, environment) ==
  [t |-> "Function", callable |-> "Fun", parameters |-> params,
   body |-> body, name |-> name, environment |-> environment]

\* impl Display for Value
Display(value) ==
  CASE value.t = "Number" -> ToString(value.n)
    [] value.t = "String" -> value.s
    [] value.t = "Bool" -> IF value.b THEN "true" ELSE "false"
    [] value.t = "Nil" -> "nil"
    [] value.t = "Function" -> "function"

type_as_string(value) ==
  CASE value.t = "Bool" -> "bool"
    [] value.t = "Number" -> "number"
    [] value.t = "String" -> "string"
    [] value.t = "Nil" -> "nil"
    [] value.t = "Function" -> "function"

\* a truthiness that also counts nil as false
is_truthy_but_nil(value) ==
  IF value.t = "Bool" THEN value.b ELSE value.t # "Nil"

is_truthy(value) == IF value.t = "Bool" THEN value.b ELSE TRUE

\* an equality that answers false for operands it cannot compare
is_equal_or_false(a, b) == [ok |-> TRUE, v |-> a = b]

\* is_equal: Ok(bool) within Bool, Number, String; Err otherwise
is_equal(a, b) ==
  IF a.t = "Bool" /\ b.t = "Bool" THEN [ok |-> TRUE, v |-> a.b = b.b]
  ELSE IF a.t = "Number" /\ b.t = "Number" THEN [ok |-> TRUE, v |-> a.n = b.n]
  ELSE IF a.t = "String" /\ b.t = "String" THEN [ok |-> TRUE, v |-> a.s = b.s]
  ELSE [ok |-> FALSE]

\* .join(" ") of the displayed arguments
RECURSIVE Join(_, _)
Join(values, i) ==
  IF i > Len(values) THEN ""
  ELSE IF i = Len(values) THEN Display(values[i])
  ELSE Display(values[i]) \o " " \o Join(values, i + 1)

\* what SystemTime::now() reads, in seconds since the epoch
ClockReading == 1700000000

\* The evaluator's state: the frames, stdout, the remaining fuel, and the
\* outcome of the evaluation so far: "ok" with a value, "err" (a Result
\* Err propagating through `?`), "panic", or "fuel" (bound reached).
\* fresh collects the (frame, name) pairs that assign() created.
StateNew(hp, output, fuel) ==
  [heap |-> hp, out |-> output, fuel |-> fuel, status |-> "ok",
   value |-> NilValue, error |-> "", fresh |-> {}]

Return(st, value) == [st EXCEPT !.value = value]

Raise(st, err) == [st EXCEPT !.status = "err", !.error = err]

Panic(st, message) == [st EXCEPT !.status = "panic", !.error = message]

\* the arithmetic and comparison arms of interpret_expr (Binary)
Plus(a, b) == NumberValue(a + b)

Minus(a, b) == NumberValue(a - b)

Star(a, b) == NumberValue(a * b)

Slash(a, b) == NumberValue(a + b)

BinaryNumbers(st, operator, left, right) ==
  IF left.t = "Number" /\ right.t = "Number"
  THEN Return(st,
         CASE operator = "Plus" -> Plus(left.n, right.n)
           [] operator = "Minus" -> Minus(left.n, right.n)
           [] operator = "Star" -> Star(left.n, right.n)
           [] operator = "Slash" -> Slash(left.n, right.n)
           [] operator = "Less" -> BoolValue(left.n < right.n)
           [] operator = "Greater" -> BoolValue(left.n > right.n)
           [] operator = "GreaterEqual" -> BoolValue(left.n >= right.n)
           [] operator = "LessEqual" -> BoolValue(left.n <= right.n))
  ELSE Raise(st, "todo")

\* the `match operator` of interpret_expr (Binary), both operands evaluated
BinaryResult(st, operator, left, right) ==
  CASE operator = "BangEqual" ->
         LET eq == is_equal(left, right) IN
           IF eq.ok THEN Return(st, BoolValue(~eq.v)) ELSE Raise(st, "todo")
    [] operator = "Comma" -> Return(st, right)
    [] operator = "EqualEqual" ->
         LET eq == is_equal(left, right) IN
           IF eq.ok THEN Return(st, BoolValue(eq.v)) ELSE Raise(st, "todo")
    [] operator \in {"Plus", "Minus", "Star", "Slash", "Less", "Greater",
                     "GreaterEqual", "LessEqual"} ->
         BinaryNumbers(st, operator, left, right)
    [] OTHER -> Raise(st, "todo")

\* the `match operator` of interpret_expr (Unary)
UnaryResult(st, operator, value) ==
  IF operator = "Bang"
  THEN IF value.t = "Bool" THEN Return(st, BoolValue(~value.b))
       ELSE Raise(st, "TypeError")
  ELSE IF value.t = "Number" THEN Return(st, NumberValue(0 - value.n))
       ELSE Raise(st, "TypeError")

\* the Literal arm of interpret_expr
interpret_literal(lc, value, env, st) ==
  CASE value.type = "True" -> Return(st, BoolValue(TRUE))
    [] value.type = "False" -> Return(st, BoolValue(FALSE))
    [] value.type = "Number" -> Return(st, NumberValue(value.value))
    [] value.type = "String" -> Return(st, StringValue(value.value))
    [] value.type = "Nil" -> Return(st, NilValue)
    [] value.type = "Identifier" ->
         IF value.id \notin DOMAIN lc
         THEN Panic(st, "unwrap on None")
         ELSE IF FrameAt(st.heap, env, lc[value.id]) = 0
         THEN Panic(st, "cant find a parent env")
         ELSE LET got == EnvGet(st.heap, env, value.name, lc[value.id])
              IN IF got.some THEN Return(st, got.v)
                 ELSE Raise(st, "UndefinedIdentifier")

\* the frame in which Fun::call binds the parameters and runs the body
CallFrame(st, fun) == [st |-> st, env |-> fun.environment]

RECURSIVE interpret_expr(_, _, _, _), interpret_stmt(_, _, _, _),
          interpret_stmts(_, _, _, _, _), interpret_args(_, _, _, _, _, _),
          call(_, _, _, _), while_loop(_, _, _, _), bind_params(_, _, _, _, _)

\* for (index, param) in parameters: environment.define(param, arguments[index])
bind_params(hp, env, params, arguments, i) ==
  IF i > Len(params) THEN hp
  ELSE bind_params(EnvDefine(hp, env, params[i], arguments[i]),
                   env, params, arguments, i + 1)

\* Callable::call for NativeClock, NativePrintln and Fun
call(lc, st, fun, arguments) ==
  IF fun.callable = "NativeClock" THEN Return(st, NumberValue(ClockReading))
  ELSE IF fun.callable = "NativePrintln"
  THEN Return([st EXCEPT !.out = Append(st.out, Join(arguments, 1))],
              NilValue)
  ELSE IF Len(arguments) # Len(fun.parameters) THEN Panic(st, "aaaaaa")
  ELSE IF st.fuel = 0 THEN [st EXCEPT !.status = "fuel"]
  ELSE LET frame == CallFrame(st, fun)
           bound == [frame.st EXCEPT
                       !.heap = bind_params(frame.st.heap, frame.env,
                                            fun.parameters, arguments, 1),
                       !.fuel = st.fuel - 1]
           done == interpret_stmts(lc, fun.body, frame.env, bound, 1)
       IN IF done.status # "ok" THEN done ELSE Return(done, NilValue)

\* for arg in arguments: eval_arguments.push(interpret_expr(arg)?)
interpret_args(lc, exprs, env, st, i, acc) ==
  IF i > Len(exprs) THEN [st |-> st, values |-> acc]
  ELSE LET r == interpret_expr(lc, exprs[i], env, st) IN
         IF r.status # "ok" THEN [st |-> r, values |-> acc]
         ELSE interpret_args(lc, exprs, env, r, i + 1, Append(acc, r.value))

\* whether `a or b` / `a and b` goes on to evaluate b, a being evaluated
\* `or` without the early return
OrAlwaysEvaluatesRight(left_value) == TRUE

OrEvaluatesRight(left_value) == ~is_truthy(left_value)

AndEvaluatesRight(left_value) == is_truthy(left_value)

\* the branch the ternary evaluates
TernaryBranch(expr, conditional_value) ==
  IF is_truthy(conditional_value) THEN <<expr.true_case>>
  ELSE <<expr.false_case>>

interpret_expr(lc, expr, env, st) ==
  CASE expr.type = "Unary" ->
         LET r == interpret_expr(lc, expr.expr, env, st) IN
           IF r.status # "ok" THEN r
           ELSE UnaryResult(r, expr.operator, r.value)
    [] expr.type = "Binary" /\ expr.operator = "And" ->
         LET l == interpret_expr(lc, expr.left, env, st) IN
           IF l.status # "ok" THEN l
           ELSE IF AndEvaluatesRight(l.value)
           THEN LET r == interpret_expr(lc, expr.right, env, l) IN
                  IF r.status # "ok" THEN r
                  ELSE IF is_truthy(r.value) THEN r
                  ELSE Return(r, BoolValue(FALSE))
           ELSE Return(l, BoolValue(FALSE))
    [] expr.type = "Binary" /\ expr.operator = "Or" ->
         LET l == interpret_expr(lc, expr.left, env, st) IN
           IF l.status # "ok" THEN l
           ELSE IF ~OrEvaluatesRight(l.value) THEN l
           ELSE LET r == interpret_expr(lc, expr.right, env, l) IN
                  IF r.status # "ok" THEN r
                  ELSE IF is_truthy(r.value) THEN r
                  ELSE Return(r, BoolValue(FALSE))
    [] expr.type = "Binary" /\ expr.operator \notin {"And", "Or"} ->
         LET l == interpret_expr(lc, expr.left, env, st) IN
           IF l.status # "ok" THEN l
           ELSE LET r == interpret_expr(lc, expr.right, env, l) IN
                  IF r.status # "ok" THEN r
                  ELSE BinaryResult(r, expr.operator, l.value, r.value)
    [] expr.type = "Ternary" ->
         LET c == interpret_expr(lc, expr.conditional, env, st) IN
           IF c.status # "ok" THEN c
           ELSE interpret_expr(lc, TernaryBranch(expr, c.value)[1], env, c)
    [] expr.type = "Grouping" -> interpret_expr(lc, expr.expr, env, st)
    [] expr.type = "Literal" -> interpret_literal(lc, expr.value, env, st)
    [] expr.type = "Assignment" ->
         LET r == interpret_expr(lc, expr.expression, env, st) IN
           IF r.status # "ok" THEN r
           ELSE IF expr.id \notin DOMAIN lc THEN Panic(r, "unwrap on None")
           ELSE IF FrameAt(r.heap, env, lc[expr.id]) = 0
           THEN Panic(r, "cant find a parent env")
           ELSE LET target == AssignTarget(r.heap, env, lc[expr.id]) IN
                  [r EXCEPT
                     !.heap = EnvAssign(r.heap, env, expr.name, r.value,
                                        lc[expr.id]),
                     !.fresh = IF expr.name \in DOMAIN r.heap[target].values
                               THEN @ ELSE @ \cup {<<target, expr.name>>}]
    [] expr.type = "Call" ->
         LET f == interpret_expr(lc, expr.function, env, st) IN
           IF f.status # "ok" THEN f
           ELSE IF f.value.t # "Function" THEN Panic(f, "todo: err")
           ELSE LET args == interpret_args(lc, expr.arguments, env, f, 1,
                                           <<>>)
                IN IF args.st.status # "ok" THEN args.st
                   ELSE call(lc, args.st, f.value, args.values)

\* a `?` that lets the loop go on after an Err
NeverPropagates(status) == FALSE

\* the `?` on interpret_stmt: anything but Ok leaves the enclosing function;
\* the loop goes on with the next statement otherwise
Propagates(status) == status # "ok"

\* for stmt in statements: interpret_stmt(stmt, env)?
interpret_stmts(lc, stmts, env, st, i) ==
  IF i > Len(stmts) THEN st
  ELSE LET r == interpret_stmt(lc, stmts[i], env, st) IN
         IF Propagates(r.status) THEN r
         ELSE interpret_stmts(lc, stmts, env, [r EXCEPT !.status = "ok"],
                              i + 1)

\* while interpret_expr(condition)?.is_truthy() { interpret_stmt(statement)? }
while_loop(lc, stmt, env, st) ==
  LET c == interpret_expr(lc, stmt.condition, env, st) IN
    IF c.status # "ok" THEN c
    ELSE IF ~is_truthy(c.value) THEN c
    ELSE IF c.fuel = 0 THEN [c EXCEPT !.status = "fuel"]
    ELSE LET body == interpret_stmt(lc, stmt.statement, env,
                                    [c EXCEPT !.fuel = c.fuel - 1])
         IN IF body.status # "ok" THEN body
            ELSE while_loop(lc, stmt, env, body)

interpret_stmt(lc, stmt, env, st) ==
  CASE stmt.type = "Block" ->
         LET block_environment == Alloc(st.heap, EnvironmentNew(env)) IN
           interpret_stmts(lc, stmt.statements, block_environment.handle,
                           [st EXCEPT !.heap = block_environment.heap], 1)
    [] stmt.type = "Expression" ->
         interpret_expr(lc, stmt.expression, env, st)
    [] stmt.type = "Declaration" ->
         LET r == interpret_expr(lc, stmt.initializer, env, st) IN
           IF r.status # "ok" THEN r
           ELSE [r EXCEPT !.heap = EnvDefine(r.heap, env, stmt.name, r.value)]
    [] stmt.type = "FunDeclaration" ->
         LET own == Alloc(st.heap, EnvironmentNew(env))
             value == FunValue(stmt.parameters, stmt.body, stmt.name,
                               own.handle)
         IN [st EXCEPT !.heap = EnvDefine(own.heap, env, stmt.name, value)]
    [] stmt.type = "While" -> while_loop(lc, stmt, env, st)
    [] stmt.type = "If" ->
         LET c == interpret_expr(lc, stmt.condition, env, st) IN
           IF c.status # "ok" THEN c
           ELSE IF is_truthy(c.value)
           THEN interpret_stmt(lc, stmt.true_case, env, c)
           ELSE IF stmt.false_case.some
           THEN interpret_stmt(lc, stmt.false_case.v, env, c)
           ELSE c

\* interpret_program, up to its loop: the global frame with the natives and
\* the top frame whose parent it is
GlobalHeap ==
  <<[values |-> [n \in {"clock", "println"} |->
                   IF n = "clock" THEN NativeValue("NativeClock")
                   ELSE NativeValue("NativePrintln")],
     parent |-> 0],
    EnvironmentNew(1)>>

\* the handle of `top`
Top == 2

----------------------------------------------------------------------------
(* runner.rs: run(source), one action per step *)

\* the VM backend before vm::runner::run is entered
VmIdle == [parser |-> <<>>, stack |-> <<>>, ip |-> 0, printed |-> <<>>]

\* The programs handed to run() are assembled from pieces: `parts` is the
\* sequence of pieces and `source` their concatenation.
RECURSIVE Concat(_, _)
Concat(pieces, i) ==
  IF i > Len(pieces) THEN "" ELSE pieces[i] \o Concat(pieces, i + 1)

\* statements a program is assembled from
Fragments ==
  {"var a = 1; ",
   "println(7); ",
   "{ var a = a; a = a + 1; println(a); } ",
   "fun f(n) { if (n > 0) { f(n - 1); } println(n, a); } ",
   "f(1); ",
   "-\"s\"; ",
   "var = 1; ",
   "println(b); ",
   "fun g() { b = 1; } "}

\* whole programs: the end-to-end scenarios and single-statement cases
Scenarios ==
  {"println(1 + 2 * 3);",
   "var a = 1; var b = 2; println(a + b);",
   "var x = 0; while (x < 3) { x = x + 1; } println(x);",
   "fun make(){ var c = 0; fun inc(){ c = c + 1; return c; } return inc; } var f = make(); println(f()); println(f());",
   "if (true) { println(\"t\"); } else { println(\"f\"); }",
   "fun make(){ var c = 0; fun inc(){ c = c + 1; println(c); } inc(); inc(); } make();",
   "fun r(n) { if (n > 0) { r(n - 1); } println(n); } r(1);",
   "fun r(n) { if (n > 0) { r(n - 1); } println(n); } r(2);",
   "var a = 1; { fun h() { println(a); } var a = 2; h(); { var a = 3; h(); } }",
   "var a = 1; { var a = a; }",
   "var a = a;",
   "println(6 / 3);",
   "println(8 / 2);",
   "println(6 / nil);",
   "!1;",
   "println(1); 1 == \"a\"; println(2);",
   "println(1); -nil; println(2);",
   "println(clock() > 0);",
   "var a = 1; a(); println(2);",
   "fun k(x) { } k(); println(2);",
   "println(15, \"a\", true, nil, println); // done\n"}

Sequences(set, n) == UNION {[1..k -> set] : k \in 1..n}

\* var x = 0; while (x < N) { x = x + 1; } println(x);
LoopInputs ==
  {<<"var x = 0; while (x < ", n, ") { x = x + 1; } println(x);">> :
     n \in {"0", "1", "2", "3", "4"}}

\* expressions whose evaluation is a RuntimeError
Failing == {"-nil", "!1", "1 == \"a\"", "1 < nil", "nil + 1"}

\* the text before and after the failing expression: at top level, in a
\* block, in a loop body, in a function body, in an assignment between two
\* declarations, among the arguments of a call
ErrorContexts ==
  {<<"println(1); ", "; println(2);">>,
   <<"println(1); { println(2); ", "; println(3); } println(4);">>,
   <<"var x = 0; while (x < 3) { x = x + 1; println(x); ",
     "; println(9); } println(4);">>,
   <<"fun f() { println(1); ", "; println(2); } f(); println(3);">>,
   <<"var a = 1; a = ", "; var b = 2; a = 3;">>,
   <<"var a = 1; println(a = 2, ", ", a = 3); println(a);">>}

ErrorInputs == {<<c[1], e, c[2]>> : c \in ErrorContexts, e \in Failing}

\* the literals a variable is initialised with or assigned
Initials == {"1", "2", "\"s\"", "nil"}

\* a block that declares a, one that assigns a before declaring it, and a
\* block in a block, each followed by a use of the outer a
ShadowInputs ==
  {<<"var a = ", v, "; { var a = ", w, "; println(a); } println(a);">> :
     v \in Initials, w \in Initials}

AssignThenShadowInputs ==
  {<<"var a = ", v, "; { a = ", w,
     "; var a = 7; println(a); } println(a);">> :
     v \in Initials, w \in Initials}

NestedShadowInputs ==
  {<<"var a = ", v, "; { var a = ", w,
     "; { var a = 7; a = 8; println(a); } println(a); } println(a);">> :
     v \in Initials, w \in Initials}

BlockInputs == ShadowInputs \cup AssignThenShadowInputs \cup NestedShadowInputs

\* the constructs that test a condition, as the text before and after it
TruthIf == <<"if (", ") { println(\"A\"); } else { println(\"B\"); }">>

TruthWhile ==
  <<"var n = ", "; while (n) { println(\"A\"); n = false; } println(\"B\");">>

TruthTernary == <<"println(", " ? \"A\" : \"B\");">>

TruthAndLeft == <<"println(", " and \"A\");">>

TruthAndRight == <<"println(true and ", ");">>

TruthOrLeft == <<"println(", " or \"B\");">>

TruthOrRight == <<"println(false or ", ");">>

TruthContexts ==
  {TruthIf, TruthWhile, TruthTernary, TruthAndLeft, TruthAndRight,
   TruthOrLeft, TruthOrRight}

TruthOperands ==
  {"nil", "0", "1", "\"\"", "\"s\"", "println", "true", "false"}

TruthInputs ==
  {<<c[1], v, c[2]>> : c \in TruthContexts, v \in TruthOperands}

\* a statement that is cut short, the text at which it is cut, and what follows
SyncHeads ==
  {"1 ", "1 + ", "println(1 ", "var a = 1 ", "var ", "{ 1; ", "fun f(a ",
   "if (1 "}

SyncMiddles ==
  {"var b = ; ", "var b = 2; ", "fun g( { } ", "fun g() { } ", "; ", ") ",
   "2 "}

SyncTails == {"", "var c = ;", "println(3);", "} fun ;"}

SyncInputs ==
  {<<h, m, t>> : h \in SyncHeads, m \in SyncMiddles, t \in SyncTails}

Inputs ==
  Sequences(Fragments, MaxParts) \cup {<<s>> : s \in Scenarios}
    \cup LoopInputs \cup ErrorInputs \cup BlockInputs \cup TruthInputs \cup SyncInputs

\* the state at the entry of a run(source) whose first step is `start`
InitAt(inputs, start) ==
  /\ pc = start
  /\ parts \in inputs
  /\ source = Concat(parts, 1)
  /\ scanner = ScannerNew(Concat(parts, 1))
  /\ tokens = <<>>
  /\ current = 0
  /\ statements = <<>>
  /\ errors = <<>>
  /\ counter = 1
  /\ locals = EmptyMap
  /\ ownInit = {}
  /\ heap = <<>>
  /\ out = <<>>
  /\ fresh = {}
  /\ index = 0
  /\ interpreted = "none"
  /\ error = ""
  /\ result = "none"
  /\ vm = VmIdle

\* no call of Environment::assign on its own
NoCall == <<>>

InitWith(inputs) == InitAt(inputs, "scan") /\ envCall = NoCall

Init == InitWith(Inputs)

\* let tokens = scanner.collect::<Result<Vec<Token>>>()?;
\* one next() of the iterator per step: a token is pushed, an Err ends run(),
\* None ends the collection and Parser::new(tokens) follows
Scan ==
  /\ pc = "scan"
  /\ LET item == next_token(scanner) IN
       IF ~item.some
       THEN /\ pc' = "parse"
            /\ UNCHANGED <<scanner, tokens, result>>
       ELSE IF ~item.ok
       THEN /\ pc' = "done"
            /\ scanner' = item.s
            /\ tokens' = <<>>
            /\ result' = "Err"
       ELSE /\ pc' = "scan"
            /\ scanner' = item.s
            /\ tokens' = Append(tokens, item.token)
            /\ UNCHANGED result
  /\ UNCHANGED <<envCall, vm, parts, source, current, statements, errors, counter, locals,
                 ownInit, heap, out, fresh, index, interpreted, error>>

\* the parser of run(), between two iterations of the loop of parse()
TheParser ==
  [ParserNew(tokens, counter) EXCEPT !.current = current, !.errors = errors]

\* the effect of one iteration of the loop of parse() on the run
Declared(decl) ==
  /\ statements' = IF decl.some THEN Append(statements, decl.node)
                   ELSE statements
  /\ current' = decl.p.current
  /\ errors' = decl.p.errors
  /\ counter' = decl.p.counter
  /\ pc' = IF decl.p.panic THEN "done" ELSE "parse"
  /\ result' = IF decl.p.panic THEN "panic" ELSE result

\* one iteration of `while !self.is_at_and() { self.declaration()? ... }`
ParseDeclaration ==
  /\ pc = "parse"
  /\ ~is_at_and(TheParser)
  /\ Declared(declaration(TheParser))
  /\ UNCHANGED <<envCall, vm, parts, source, scanner, tokens, locals, ownInit, heap, out,
                 fresh, index, interpreted, error>>

\* let statements = parser.parse()?;  once the loop is over
Parse ==
  /\ pc = "parse"
  /\ is_at_and(TheParser)
  /\ statements' = parse(errors, statements)
  /\ pc' = "resolve"
  /\ UNCHANGED <<envCall, vm, parts, source, scanner, tokens, current, errors, counter,
                 locals, ownInit, heap, out, fresh, index, interpreted, error,
                 result>>

\* what run() does after parse(): "resolve" first, then interpret
AfterParse == "resolve"

\* let locals = Resolver::new().resolve_program(&statements);
Resolve ==
  /\ pc = AfterParse
  /\ LET resolved == resolve_program(statements) IN
       /\ locals' = resolved.locals
       /\ ownInit' = resolved.own_init
       /\ pc' = IF resolved.panic THEN "done" ELSE "new"
       /\ result' = IF resolved.panic THEN "panic" ELSE result
       /\ error' = IF resolved.panic THEN "must be defined before it's used"
                   ELSE error
  /\ UNCHANGED <<envCall, vm, parts, source, scanner, tokens, current, statements, errors,
                 counter, heap, out, fresh, index, interpreted>>

\* Interpreter::new(locals) and interpret_program up to its loop
Interpret ==
  /\ pc = "new"
  /\ heap' = GlobalHeap
  /\ index' = 1
  /\ pc' = "interpret"
  /\ UNCHANGED <<envCall, vm, parts, source, scanner, tokens, current, statements, errors,
                 counter, locals, ownInit, out, fresh, interpreted, error,
                 result>>

\* one iteration of `for stmt in &program { interpret_stmt(stmt, top)?; }`
InterpretStmt ==
  /\ pc = "interpret"
  /\ index <= Len(statements)
  /\ LET st == interpret_stmt(locals, statements[index], Top,
                              StateNew(heap, out, MaxFuel))
     IN /\ heap' = st.heap
        /\ out' = st.out
        /\ fresh' = fresh \cup st.fresh
        /\ error' = st.error
        /\ index' = IF st.status = "ok" THEN index + 1 ELSE index
        /\ interpreted' = IF st.status = "err" THEN "err" ELSE interpreted
        /\ pc' = CASE st.status = "ok" -> "interpret"
                   [] st.status = "err" -> "return"
                   [] OTHER -> "done"
        /\ result' = CASE st.status = "panic" -> "panic"
                       [] st.status = "fuel" -> "bound"
                       [] OTHER -> result
  /\ UNCHANGED <<envCall, vm, parts, source, scanner, tokens, current, statements, errors,
                 counter, locals, ownInit>>

\* the loop of interpret_program is over: Ok(())
InterpretEnd ==
  /\ pc = "interpret"
  /\ index > Len(statements)
  /\ interpreted' = "ok"
  /\ pc' = "return"
  /\ UNCHANGED <<envCall, vm, parts, source, scanner, tokens, current, statements, errors,
                 counter, locals, ownInit, heap, out, fresh, index, error,
                 result>>

\* what run() returns once interpret_program has returned
RunResult(program_result) == "Ok"

\* interpreter.interpret_program(statements); Ok(())
Return_ ==
  /\ pc = "return"
  /\ result' = RunResult(interpreted)
  /\ pc' = "done"
  /\ UNCHANGED <<envCall, vm, parts, source, scanner, tokens, current, statements, errors,
                 counter, locals, ownInit, heap, out, fresh, index,
                 interpreted, error>>

Next ==
  \/ Scan
  \/ ParseDeclaration
  \/ Parse
  \/ Resolve
  \/ Interpret
  \/ InterpretStmt
  \/ InterpretEnd
  \/ Return_

Spec == Init /\ [][Next]_vars


----------------------------------------------------------------------------
(* Expression programs: logical operators, ternaries and divisions whose  *)
(* operands are drawn from small sets                                      *)

Operands == {"true", "false", "nil", "0", "\"s\"", "println"}

\* var x = 0; (println("a"), A) op (println("b"), B); println(x);
LogicInputs ==
  {<<"var x = 0; (println(\"a\"), ", a, ") ", op, " (println(\"b\"), ", b,
     "); println(x);">> :
     a \in Operands, op \in {"or", "and"}, b \in Operands \cup {"x = x + 1"}}

\* c1 ? a : c2 ? b : d;  with operands that carry no identifier
TernaryShapeInputs ==
  {<<c1, " ? ", a, " : ", c2, " ? ", b, " : ", d, ";">> :
     c1 \in {"true", "false", "1 == 2"}, c2 \in {"true", "false", "1 == 2"},
     a \in {"1", "-2", "(nil ? 3 : 4)"}, b \in {"1", "\"s\""},
     d \in {"1", "(nil ? 3 : 4)"}}

\* C1 ? println("a") : C2 ? println("b") : println("d");
TernaryEvalInputs ==
  {<<"", c1, " ? println(\"a\") : ", c2,
     " ? println(\"b\") : println(\"d\");">> :
     c1 \in Operands, c2 \in Operands}

\* println(C1 ? 1 : C2 ? 3 : 4);
TernaryValueInputs ==
  {<<"println(", c1, " ? 1 : ", c2, " ? 3 : 4);">> :
     c1 \in Operands, c2 \in Operands}

TernaryExamples ==
  {<<"println(true ? 1 : 2 ? 3 : 4);">>,
   <<"println(false ? 1 : (true ? 3 : 4));">>}

\* println(A / B);
DivisionInputs ==
  {<<"println(", a, " / ", b, ");">> :
     a \in {"6", "8", "nil", "\"s\""}, b \in {"3", "2", "true", "println"}}

\* println(A == B);  println(A != B);
EqualityOperands ==
  {"1", "2", "\"s\"", "\"t\"", "true", "false", "nil", "println", "clock"}

EqualityInputs ==
  {<<"println(", a, " ", op, " ", b, ");">> :
     a \in EqualityOperands, op \in {"==", "!="}, b \in EqualityOperands}

ExprInputs ==
  LogicInputs \cup TernaryShapeInputs \cup TernaryEvalInputs
    \cup TernaryValueInputs \cup TernaryExamples \cup DivisionInputs
    \cup EqualityInputs

InitExpr == InitWith(ExprInputs)

SpecExpr == InitExpr /\ [][Next]_vars

----------------------------------------------------------------------------
(* Sources for the scanner alone: every sequence of lexical pieces *)

\* fragments one scanner source is assembled from
MaxPieces == 3

\* two-character operators and their one-character prefixes, a string, an
\* unterminated string, a comment, a line break, numbers, words, a character
\* no arm of next_token matches
Pieces ==
  {"!=", "==", "<=", ">=", "!", "=", "<", "\"ab\"", "\"c", "// d\n", "/",
   "\n", " ", "1.5", "12.", "x", "var", "@", ";"}

ScanInputs == Sequences(Pieces, MaxPieces)

InitScan == InitWith(ScanInputs)

SpecScan == InitScan /\ [][Scan]_vars

----------------------------------------------------------------------------
(* Environment::assign on its own: a chain of frames, each the parent of   *)
(* the next, and one call                                                  *)

\* frames of the chain
MaxFrames == 3

\* the HashMaps a frame may hold
FrameValues ==
  UNION {[names -> {NumberValue(1), StringValue("s")}] :
           names \in SUBSET {"a", "b"}}

\* the chains of n frames: frame 1 has no parent, frame k has parent k - 1
Chains(n) ==
  {[k \in 1..n |-> [values |-> v[k], parent |-> k - 1]] :
     v \in [1..n -> FrameValues]}

InitEnv ==
  /\ InitAt({<<"">>}, "assign")
  /\ \E n \in 1..MaxFrames :
       envCall \in [frames : Chains(n), env : 1..n,
                    identifier : {"a", "b", "c"},
                    value : {NumberValue(9), NilValue},
                    distance : 0..MaxFrames,
                    after : {<<>>}, returned : {None}]

\* frame.borrow_mut().assign(identifier, value, distance)
EnvAssignCall ==
  /\ pc = "assign"
  /\ pc' = "done"
  /\ IF FrameAt(envCall.frames, envCall.env, envCall.distance) = 0
     THEN /\ result' = "panic"
          /\ error' = "cant find a parent env"
          /\ UNCHANGED envCall
     ELSE /\ envCall' =
               [envCall EXCEPT
                  !.after = EnvAssign(envCall.frames, envCall.env,
                                      envCall.identifier, envCall.value,
                                      envCall.distance),
                  !.returned = Some(EnvAssignReturns(envCall.frames,
                                      envCall.env, envCall.identifier,
                                      envCall.value, envCall.distance))]
          /\ result' = "Ok"
          /\ UNCHANGED error
  /\ UNCHANGED <<parts, source, scanner, tokens, current, statements, errors,
                 counter, locals, ownInit, heap, out, fresh, index,
                 interpreted, vm>>

SpecEnv == InitEnv /\ [][EnvAssignCall]_vars

----------------------------------------------------------------------------
(* vm/src/parser.rs, vm/src/chunk.rs: the single-pass compiler *)

\* The Scanner of the VM backend comes from the `scanner` crate, whose
\* Token and TokenType are those of tree_walking's scanner.rs; next_token
\* stands for it.  chunk.rs's Value has the Number, String, Bool and Nil
\* variants, written with the constructors above, and its Display prints
\* them as interpreter.rs's does.

NONE_PREC == 0

ASSIGNMENT_PREC == 1

EQUALITY_PREC == 2

TERM_PREC == 3

FACTOR_PREC == 4

UNARY_PREC == 5

\* An f64 of the VM is NumberValue(n) when it is an integer and otherwise
\* the ratio [numerator, denominator] in lowest terms, with 1/0 for inf,
\* -1/0 for -inf and 0/0 for NaN.  The sign of a zero is not kept.
Numerator(value) == IF "n" \in DOMAIN value THEN value.n ELSE value.numerator

Denominator(value) ==
  IF "n" \in DOMAIN value THEN 1 ELSE value.denominator

Abs(x) == IF x < 0 THEN 0 - x ELSE x

Sign(x) == IF x < 0 THEN 0 - 1 ELSE IF x > 0 THEN 1 ELSE 0

RECURSIVE Gcd(_, _)
Gcd(x, y) == IF y = 0 THEN x ELSE Gcd(y, x % y)

VmNumber(num, den) ==
  LET n == IF den < 0 THEN 0 - num ELSE num
      d == Abs(den)
      g == Gcd(Abs(n), d)
  IN IF d = 0
     THEN [t |-> "Number", numerator |-> Sign(n), denominator |-> 0]
     ELSE IF d = g THEN NumberValue(n \div g)
     ELSE [t |-> "Number", numerator |-> n \div g, denominator |-> d \div g]

NaN == VmNumber(0, 0)

\* Value::Number(*value) of a Number token: the digits before and after
\* the dot
VmLiteral(kind) ==
  VmNumber(DecimalValue(kind.frac, kind.value), 10 ^ Len(kind.frac))

\* Parser::new(scanner), with Chunk::new()
VmParserNew(src) ==
  [scanner |-> ScannerNew(src), previous |-> None, current |-> None,
   code |-> <<>>, lines |-> <<>>, constants |-> <<>>, status |-> "ok"]

get_precedence(token_type) ==
  CASE token_type \in {"Plus", "Minus"} -> TERM_PREC
    [] token_type \in {"Star", "Slash"} -> FACTOR_PREC
    [] token_type \in {"EqualEqual", "BangEqual", "Less", "LessEqual",
                       "Greater", "GreaterEqual"} -> EQUALITY_PREC
    [] OTHER -> NONE_PREC

Op(name) == [op |-> name]

push_code(p, code, line) ==
  [p EXCEPT !.code = Append(p.code, code), !.lines = Append(p.lines, line)]

\* a push_constant that takes the index after the push: constants.len()
push_constant_past(p, value, line) ==
  push_code([p EXCEPT !.constants = Append(p.constants, value)],
            [op |-> "Constant", index |-> Len(p.constants) + 1], line)

\* the index of a constant is its 0-based position in Chunk::constants
push_constant(p, value, line) ==
  push_code([p EXCEPT !.constants = Append(p.constants, value)],
            [op |-> "Constant", index |-> Len(p.constants)], line)

\* advance(): previous takes current, current the scanner's next item
VmAdvance(p) ==
  IF p.status # "ok" THEN p
  ELSE LET item == next_token(p.scanner) IN
    IF ~item.some
    THEN [p EXCEPT !.previous = p.current, !.current = None]
    ELSE IF ~item.ok
    THEN [p EXCEPT !.previous = p.current, !.scanner = item.s,
                   !.status = "err"]
    ELSE [p EXCEPT !.previous = p.current, !.scanner = item.s,
                   !.current = Some(item.token)]

\* consume(token_type, err); current() unwraps
VmConsume(p, token_type) ==
  IF p.status # "ok" THEN p
  ELSE IF ~p.current.some THEN [p EXCEPT !.status = "panic"]
  ELSE IF p.current.v.kind.type = token_type THEN VmAdvance(p)
  ELSE [p EXCEPT !.status = "err"]

RECURSIVE parse_precedence(_, _), parse_prefix(_), parse_infix(_),
          InfixLoop(_, _), parse_unary(_)

\* parse_unary() after `self.parse_precedence(UNARY_PREC)?`
UnaryCode(operator_token, p) ==
  IF p.status # "ok" THEN p
  ELSE IF operator_token.kind.type = "Bang" THEN p
  ELSE IF operator_token.kind.type = "Minus"
  THEN push_code(p, Op("Negate"), operator_token.line)
  ELSE [p EXCEPT !.status = "panic"]

parse_unary(p) == UnaryCode(p.previous.v, parse_precedence(p, UNARY_PREC))

parse_prefix(p) ==
  IF p.status # "ok" THEN p
  ELSE IF ~p.previous.some THEN [p EXCEPT !.status = "panic"]
  ELSE LET kind == p.previous.v.kind
           line == p.previous.v.line
       IN
    CASE kind.type = "Number" ->
           push_constant(p, VmLiteral(kind), line)
      [] kind.type = "String" ->
           push_constant(p, StringValue(kind.value), line)
      [] kind.type = "True" -> push_code(p, Op("True"), line)
      [] kind.type = "False" -> push_code(p, Op("False"), line)
      [] kind.type = "Nil" -> push_code(p, Op("Nil"), line)
      [] kind.type = "Minus" -> parse_unary(p)
      [] kind.type = "LeftParen" ->
           VmConsume(parse_precedence(p, ASSIGNMENT_PREC), "RightParen")
      [] OTHER -> [p EXCEPT !.status = "panic"]

\* an inner match that emits Add twice
InfixCodeDoubled(operator_token, p) ==
  IF p.status # "ok" THEN p
  ELSE push_code(push_code(p, Op("Add"), operator_token.line), Op("Add"),
                 operator_token.line)

\* an inner match that emits one opcode for every operator, without Not
InfixCodeOneOpcode(operator_token, p) ==
  LET operator == operator_token.kind.type IN
  IF p.status # "ok" THEN p
  ELSE push_code(p, Op(CASE operator = "Plus" -> "Add"
                         [] operator = "Minus" -> "Subtract"
                         [] operator = "Star" -> "Multiply"
                         [] operator = "Slash" -> "Divide"
                         [] operator \in {"EqualEqual", "BangEqual"} -> "Equal"
                         [] operator \in {"Less", "LessEqual"} -> "Less"
                         [] OTHER -> "Greater"),
                 operator_token.line)

\* parse_infix() after `self.parse_precedence(prec + 1)?`: the inner match
InfixCode(operator_token, p) ==
  LET operator == operator_token.kind.type
      line == operator_token.line
  IN
  IF p.status # "ok" THEN p
  ELSE
  CASE operator = "Plus" -> push_code(p, Op("Add"), line)
    [] operator = "Minus" -> push_code(p, Op("Subtract"), line)
    [] operator = "Star" -> push_code(p, Op("Multiply"), line)
    [] operator = "Slash" -> push_code(p, Op("Divide"), line)
    [] operator = "BangEqual" ->
         push_code(push_code(p, Op("Equal"), line), Op("Not"), line)
    [] operator = "EqualEqual" -> push_code(p, Op("Equal"), line)
    [] operator = "LessEqual" ->
         push_code(push_code(p, Op("Greater"), line), Op("Not"), line)
    [] operator = "GreaterEqual" ->
         push_code(push_code(p, Op("Less"), line), Op("Not"), line)
    [] operator = "Less" -> push_code(p, Op("Less"), line)
    [] operator = "Greater" -> push_code(p, Op("Greater"), line)
    [] OTHER -> [p EXCEPT !.status = "panic"]

\* the outer match has no arm for Minus
parse_infix(p) ==
  IF p.status # "ok" THEN p
  ELSE IF p.previous.v.kind.type \in
            {"Plus", "Star", "Slash", "BangEqual", "EqualEqual", "LessEqual",
             "GreaterEqual", "Less", "Greater"}
  THEN InfixCode(p.previous.v,
                 parse_precedence(p,
                                  get_precedence(p.previous.v.kind.type) + 1))
  ELSE [p EXCEPT !.status = "panic"]

\* while prec <= get_precedence(current().kind) { advance()?; parse_infix()? }
InfixLoop(p, prec) ==
  IF p.status # "ok" THEN p
  ELSE IF ~p.current.some THEN [p EXCEPT !.status = "panic"]
  ELSE IF prec <= get_precedence(p.current.v.kind.type)
  THEN InfixLoop(parse_infix(VmAdvance(p)), prec)
  ELSE p

parse_precedence(p, prec) == InfixLoop(parse_prefix(VmAdvance(p)), prec)

\* Parser::parse: advance()?; expression()?
VmParserParse(p) == parse_precedence(VmAdvance(p), ASSIGNMENT_PREC)

----------------------------------------------------------------------------
(* vm/src/vm.rs, vm/src/runner.rs *)

\* the truthiness of the tree-walking interpreter: only false is falsy
VmIsTruthyButFalse(value) == value # BoolValue(FALSE)

\* chunk.rs, Value::is_truthy: Nil and false are falsy
VmIsTruthy(value) ==
  CASE value.t = "Nil" -> FALSE
    [] value.t = "Bool" -> value.b
    [] OTHER -> TRUE

\* the text of an f64: an integer without a fraction part, inf, -inf, NaN;
\* n/d stands for the decimal expansion of any other quotient
VmNumberText(value) ==
  IF "n" \in DOMAIN value THEN ToString(value.n)
  ELSE IF value.denominator # 0
  THEN ToString(value.numerator) \o "/" \o ToString(value.denominator)
  ELSE IF value.numerator > 0 THEN "inf"
  ELSE IF value.numerator < 0 THEN "-inf"
  ELSE "NaN"

\* chunk.rs, impl Display for Value
VmDisplay(value) ==
  IF value.t = "Number" THEN VmNumberText(value) ELSE Display(value)

\* {:?} of a Value (derive(Debug)): an integral f64 is shown with `.0`
VmDebug(value) ==
  CASE value.t = "Number" ->
         "Number(" \o VmNumberText(value)
           \o (IF "n" \in DOMAIN value THEN ".0" ELSE "") \o ")"
    [] value.t = "String" -> "String(\"" \o value.s \o "\")"
    [] value.t = "Bool" -> IF value.b THEN "Bool(true)" ELSE "Bool(false)"
    [] value.t = "Nil" -> "Nil"

\* {:?} of the stack
RECURSIVE VmDebugStack(_, _)
VmDebugStack(stack, i) ==
  IF i > Len(stack) THEN ""
  ELSE IF i = Len(stack) THEN VmDebug(stack[i])
  ELSE VmDebug(stack[i]) \o ", " \o VmDebugStack(stack, i + 1)

VmErr(m, message) == [m EXCEPT !.status = "err", !.error = message]

VmPush(m, value) == [m EXCEPT !.stack = Append(m.stack, value)]

\* an addition that keeps its left operand
VmAddLeft(a, b) == a

\* a + b, a - b, a * b, a / b, a < b of two f64
VmAdd(a, b) ==
  IF Denominator(a) = 0 /\ Denominator(b) = 0
  THEN IF Numerator(a) = Numerator(b) THEN a ELSE NaN
  ELSE VmNumber(Numerator(a) * Denominator(b) + Numerator(b) * Denominator(a),
                Denominator(a) * Denominator(b))

VmNegate(a) == VmNumber(0 - Numerator(a), Denominator(a))

\* b - a
VmSubtractReversed(a, b) == VmAdd(b, VmNegate(a))

VmSubtract(a, b) == VmAdd(a, VmNegate(b))

VmMultiply(a, b) ==
  VmNumber(Numerator(a) * Numerator(b), Denominator(a) * Denominator(b))

VmDivide(a, b) ==
  VmNumber(Numerator(a) * Denominator(b), Denominator(a) * Numerator(b))

VmLess(a, b) ==
  IF a = NaN \/ b = NaN THEN FALSE
  ELSE IF Denominator(a) = 0 /\ Denominator(b) = 0
  THEN Numerator(a) < Numerator(b)
  ELSE Numerator(a) * Denominator(b) < Numerator(b) * Denominator(a)

\* the arm of VM::interpret for one opcode, on the machine
\* m = [stack, printed, status, error]
VmExecute(m, constants, opcode) ==
  LET depth == Len(m.stack)
      b == m.stack[depth]
      a == m.stack[depth - 1]
      rest == [m EXCEPT !.stack = SubSeq(m.stack, 1, depth - 2)]
  IN
  CASE opcode.op = "Return" ->
         IF depth = 0 THEN [m EXCEPT !.printed = Append(@, "None")]
         ELSE [m EXCEPT !.printed = Append(@, "Some(" \o VmDebug(b) \o ")"),
                        !.stack = SubSeq(m.stack, 1, depth - 1)]
    [] opcode.op = "Constant" -> VmPush(m, constants[opcode.index + 1])
    [] opcode.op = "Negate" ->
         IF depth = 0 THEN [m EXCEPT !.status = "panic"]
         ELSE IF b.t = "Number"
         THEN [m EXCEPT !.stack[depth] = VmNegate(b)]
         ELSE VmErr(m, "only numbers can be negated")
    [] opcode.op \in {"Multiply", "Subtract", "Divide", "Less", "Greater"} ->
         IF depth = 0 THEN VmErr(m, "empty stack")
         ELSE IF b.t # "Number" THEN VmErr(m, "expected a number")
         ELSE IF depth = 1 THEN VmErr(m, "empty stack")
         ELSE IF a.t # "Number" THEN VmErr(m, "expected a number")
         ELSE VmPush(rest,
                CASE opcode.op = "Subtract" -> VmSubtract(a, b)
                  [] opcode.op = "Multiply" -> VmMultiply(a, b)
                  [] opcode.op = "Divide" -> VmDivide(a, b)
                  [] opcode.op = "Less" -> BoolValue(VmLess(a, b))
                  [] opcode.op = "Greater" -> BoolValue(VmLess(b, a)))
    [] opcode.op = "Add" ->
         IF depth < 2 THEN VmErr(m, "empty stack")
         ELSE IF a.t = "String" \/ b.t = "String"
         THEN VmPush(rest, StringValue(VmDisplay(a) \o VmDisplay(b)))
         ELSE IF b.t # "Number" THEN VmErr(m, "expected a number")
         ELSE IF a.t # "Number" THEN VmErr(m, "expected a number")
         ELSE VmPush(rest, VmAdd(a, b))
    [] opcode.op = "Equal" ->
         IF depth < 2 THEN VmErr(m, "empty stack")
         ELSE VmPush(rest, BoolValue(VmIsTruthy(b) = VmIsTruthy(a)))
    [] opcode.op = "Not" ->
         IF depth = 0 THEN VmErr(m, "empty stack")
         ELSE [m EXCEPT !.stack[depth] = BoolValue(~VmIsTruthy(b))]
    [] opcode.op = "True" -> VmPush(m, BoolValue(TRUE))
    [] opcode.op = "False" -> VmPush(m, BoolValue(FALSE))
    [] opcode.op = "Nil" -> VmPush(m, NilValue)

\* the variables of the tree-walking pipeline
treeVars == <<scanner, tokens, current, statements, errors, counter, locals,
              ownInit, heap, out, fresh, index, interpreted, envCall>>

\* parser.parse()?; let chunk = parser.take_chunk(); VM::new(chunk)
\* (the disassembly run() prints in between is not recorded)
VmParse ==
  /\ pc = "vm_parse"
  /\ vm' = [vm EXCEPT !.parser = VmParserParse(VmParserNew(source))]
  /\ pc' = IF vm'.parser.status = "ok" THEN "vm_interpret" ELSE "done"
  /\ result' = CASE vm'.parser.status = "ok" -> result
                 [] vm'.parser.status = "err" -> "Err"
                 [] vm'.parser.status = "panic" -> "panic"
  /\ UNCHANGED <<parts, source, error>>
  /\ UNCHANGED treeVars

\* the machine after one iteration of `for opcode in self.chunk.code.iter()`
VmStepped(m) ==
  /\ vm' = [vm EXCEPT !.stack = m.stack, !.printed = m.printed,
                      !.ip = vm.ip + 1]
  /\ pc' = IF m.status = "ok" THEN "vm_interpret" ELSE "done"
  /\ result' = CASE m.status = "ok" -> result
                 [] m.status = "err" -> "Err"
                 [] m.status = "panic" -> "panic"
  /\ error' = m.error

VmStep ==
  /\ pc = "vm_interpret"
  /\ vm.ip < Len(vm.parser.code)
  /\ VmStepped(VmExecute([stack |-> vm.stack, printed |-> vm.printed,
                          status |-> "ok", error |-> ""],
                         vm.parser.constants, vm.parser.code[vm.ip + 1]))
  /\ UNCHANGED <<parts, source>>
  /\ UNCHANGED treeVars

\* println!("Result: {:?}", self.stack); Ok(())  and run() returns Ok(())
VmFinish ==
  /\ pc = "vm_interpret"
  /\ vm.ip = Len(vm.parser.code)
  /\ vm' = [vm EXCEPT !.printed =
              Append(@, "Result: [" \o VmDebugStack(vm.stack, 1) \o "]")]
  /\ pc' = "done"
  /\ result' = "Ok"
  /\ UNCHANGED <<parts, source, error>>
  /\ UNCHANGED treeVars

NextVm == VmParse \/ VmStep \/ VmFinish

\* A op B for the literals and the infix operators of the scanner, the
\* example of the specification and the test of parser.rs
VmOperands == {"6", "3", "\"a\"", "\"b\"", "true", "false", "nil"}

VmOperators == {"+", "-", "*", "/", "==", "!=", "<", "<=", ">", ">="}

\* !A, !!A and -A
VmUnaryInputs == {<<u, a>> : u \in {"!", "!!", "-"}, a \in VmOperands}

\* 12 op 6 op 2 and -12 op 6 (every quotient is an integer), and the
\* examples of precedence and of left-associativity
VmChainInputs ==
  {<<"12", " ", o1, " ", "6", " ", o2, " ", "2">> :
     o1 \in VmOperators, o2 \in VmOperators}

VmNegatedInputs == {<<"-", "12", " ", o, " ", "6">> : o \in VmOperators}

\* nested, trailing, unfinished and empty expressions
VmOddInputs ==
  {<<"1 2">>, <<"(1)">>, <<"((6))">>, <<"-(-6)">>, <<"--6">>, <<"1 +">>,
   <<"()">>, <<"(6 + 3) * (6 / 3)">>, <<"6 / 4 * 2">>, <<"6 / 0 < 0 / 0">>,
   <<"1.5 + 2.25">>, <<"\"a\" + 1 + nil">>, <<"-(\"a\")">>, <<"1 ) 2">>,
   <<"6 == (3 < nil)">>}

VmExamples == {<<"1 + 2 * 3">>, <<"1 + 2 + 3">>, <<"-(1 + 2) * 2">>}

VmInputs ==
  VmUnaryInputs \cup VmChainInputs \cup VmNegatedInputs \cup
  {<<a, " ", op, " ", b>> :
     a \in VmOperands, op \in VmOperators \ {"/"}, b \in VmOperands}
    \cup {<<"6", " ", "/", " ", b>> : b \in {"3", "6", "\"a\""}}
    \cup VmExamples \cup VmOddInputs
    \cup {<<"println(\"a\" + \"b\");">>, <<"">>,
          <<"(1 + 2">>, <<"-true">>, <<"1 + 2 * 3 - 4">>}

InitVm == InitAt(VmInputs, "vm_parse") /\ envCall = NoCall

SpecVm == InitVm /\ [][NextVm]_vars



\* the tree-walking evaluator's truthiness of an operand text
TruthyOperand(text) == text # "false"

----------------------------------------------------------------------------
(* Claims *)

\* C1: whenever evaluation of a program raises a runtime error, run(source)
\* returns a failure (Err) and never a success.
C1_RuntimeErrorFailsRun ==
  (pc = "done" /\ interpreted = "err") => result = "Err"

\* C2: if the parser collected at least one syntax error, parse() returns
\* the empty statement list and no statement of the program has any effect:
\* nothing is printed, no frame besides the global and top frames exists and
\* no binding is made.
C2_SyntaxErrorRunsNothing ==
  (errors # <<>> /\ pc # "parse") =>
    /\ statements = <<>>
    /\ out = <<>>
    /\ fresh = {}
    /\ heap \in {<<>>, GlobalHeap}

\* a run that ended with a syntax error between two well-formed printing
\* statements
C2_Witness ==
  /\ parts = <<"println(7); ", "var = 1; ", "println(7); ">>
  /\ pc = "done"
  /\ errors = <<"VariableDeclarationMissingIdentifier">>
  /\ result = "Ok"

\* C3: bindings made by one invocation of a user function are not
\* overwritten by another: after the recursive call r(n - 1) returns, the
\* caller's n is what it was, so r(1) prints 0 then 1 and r(2) prints
\* 0, 1, 2.
C3_RecursiveCallKeepsParameters ==
  /\ (parts = <<"fun r(n) { if (n > 0) { r(n - 1); } println(n); } r(1);">>
        /\ pc = "done")
       => out = <<"0", "1">>
  /\ (parts = <<"fun r(n) { if (n > 0) { r(n - 1); } println(n); } r(2);">>
        /\ pc = "done")
       => out = <<"0", "1", "2">>

\* C4: in a program the resolver accepted, every evaluation of an
\* Identifier or Assignment finds its id in Locals, finds locals[id] parent
\* links above the current frame, and finds the name in the frame reached:
\* no unwrap on a missing id, no 'cant find a parent env', no
\* UndefinedIdentifier, and no assignment that creates a binding.
C4_ResolvedDistancesReachTheBinding ==
  /\ error \notin {"unwrap on None", "cant find a parent env",
                   "UndefinedIdentifier"}
  /\ fresh = {}

\* a finished run that called f, read n at distance 0 and 1, a at distance 1
\* and println and f at distance 2 from inside the function body
C4_Witness ==
  /\ parts = <<"var a = 1; ",
               "fun f(n) { if (n > 0) { f(n - 1); } println(n, a); } ",
               "f(1); ">>
  /\ pc = "done"
  /\ result = "Ok"
  /\ Len(out) = 2
  /\ \E id \in DOMAIN locals : locals[id] = 2

\* C5: the closure program of scenario 4 prints 1 and then 2.
C5_ClosureCounterPrints12 ==
  (parts = <<"fun make(){ var c = 0; fun inc(){ c = c + 1; return c; } return inc; } var f = make(); println(f()); println(f());">>
     /\ pc = "done")
    => out = <<"1", "2">>

\* C6: in `a or b` with a truthy and in `a and b` with a falsy, b is not
\* evaluated (its println and its assignment do not happen); otherwise b is
\* evaluated exactly once, after a.
C6_ShortCircuit ==
  (parts \in LogicInputs /\ pc = "done") =>
    LET a == parts[2]
        op == parts[4]
        b == parts[6]
        skipped == IF op = "or" THEN TruthyOperand(a) ELSE ~TruthyOperand(a)
    IN out = IF skipped THEN <<"a", "0">>
             ELSE <<"a", "b", IF b = "x = x + 1" THEN "1" ELSE "0">>

\* both a skipped and an evaluated right operand were run to the end
C6_Witness ==
  /\ pc = "done"
  /\ result = "Ok"
  /\ parts \in LogicInputs
  /\ parts[2] = "nil"
  /\ parts[6] = "x = x + 1"
  /\ parts[4] = "and"
  /\ out = <<"a", "b", "1">>

NumberExpr(n) == LiteralExpr([type |-> "Number", value |-> n, frac |-> ""])

\* the expression each operand text stands for
OperandExpr(text) ==
  CASE text = "true" -> LiteralExpr([type |-> "True"])
    [] text = "false" -> LiteralExpr([type |-> "False"])
    [] text = "1" -> NumberExpr(1)
    [] text = "\"s\"" -> LiteralExpr([type |-> "String", value |-> "s"])
    [] text = "-2" ->
         [type |-> "Unary", operator |-> "Minus", expr |-> NumberExpr(2)]
    [] text = "1 == 2" -> BinaryExpr("EqualEqual", NumberExpr(1), NumberExpr(2))
    [] text = "(nil ? 3 : 4)" ->
         [type |-> "Grouping",
          expr |-> [type |-> "Ternary",
                    conditional |-> LiteralExpr([type |-> "Nil"]),
                    true_case |-> NumberExpr(3),
                    false_case |-> NumberExpr(4)]]

TernaryExpr(c, t, f) ==
  [type |-> "Ternary", conditional |-> c, true_case |-> t, false_case |-> f]

\* C7: c1 ? a : c2 ? b : d parses as Ternary(c1, a, Ternary(c2, b, d));
\* only the selected branch is evaluated; true ? 1 : 2 ? 3 : 4 is 1 and
\* false ? 1 : (true ? 3 : 4) is 3.
C7_TernaryRightAssociative ==
  /\ (parts \in TernaryShapeInputs /\ pc = "resolve") =>
       /\ errors = <<>>
       /\ statements =
            <<[type |-> "Expression",
               expression |->
                 TernaryExpr(OperandExpr(parts[1]), OperandExpr(parts[3]),
                             TernaryExpr(OperandExpr(parts[5]),
                                         OperandExpr(parts[7]),
                                         OperandExpr(parts[9])))]>>
  /\ (parts \in TernaryEvalInputs /\ pc = "done") =>
       out = IF TruthyOperand(parts[2]) THEN <<"a">>
             ELSE IF TruthyOperand(parts[4]) THEN <<"b">>
             ELSE <<"d">>
  /\ (parts \in TernaryValueInputs /\ pc = "done") =>
       out = IF TruthyOperand(parts[2]) THEN <<"1">>
             ELSE IF TruthyOperand(parts[4]) THEN <<"3">>
             ELSE <<"4">>
  /\ (parts = <<"println(true ? 1 : 2 ? 3 : 4);">> /\ pc = "done")
       => out = <<"1">>
  /\ (parts = <<"println(false ? 1 : (true ? 3 : 4));">> /\ pc = "done")
       => out = <<"3">>

\* a chained ternary whose first condition is falsy ran to the end and
\* evaluated the nested ternary's selected branch only
C7_Witness ==
  /\ parts = <<"", "false", " ? println(\"a\") : ", "nil",
               " ? println(\"b\") : println(\"d\");">>
  /\ pc = "done"
  /\ out = <<"b">>

\* C8: a / b on two Numbers is the quotient of a by b; with a non-Number
\* operand it is a runtime error.
C8_SlashDivides ==
  (parts \in DivisionInputs /\ pc = "done") =>
    LET a == parts[2]
        b == parts[4]
    IN IF a \in {"6", "8"} /\ b \in {"3", "2"}
       THEN out = <<ToString(DecimalValue(a, 0) \div DecimalValue(b, 0))>>
       ELSE interpreted = "err" /\ out = <<>>

\* C9: a declaration whose initializer reads the variable being declared
\* is rejected by the resolver, whatever the enclosing scopes contain, and
\* no distance is recorded for the read.
C9_OwnInitializerRejected ==
  (ownInit # {} /\ pc \notin {"scan", "parse", "resolve"}) =>
    /\ result = "panic"
    /\ ownInit \cap DOMAIN locals = {}

\* the fragments that use the name b, which nothing defines
UndefinedUses == {"println(b); ", "fun g() { b = 1; } "}

\* C10: a well-formed program that reads or assigns a name defined in no
\* enclosing scope is rejected by the resolver before execution starts:
\* no frame is created, no statement runs, nothing is printed.
C10_UndefinedNameRejectedBeforeRun ==
  ((\E i \in DOMAIN parts : parts[i] \in UndefinedUses) /\ errors = <<>>) =>
    /\ pc \in {"scan", "parse", "resolve", "done"}
    /\ heap = <<>>
    /\ out = <<>>
    /\ index = 0
    /\ interpreted = "none"
    /\ pc = "done" => result = "panic"

\* a rejected run whose offending use comes after two printing statements
C10_Witness ==
  /\ parts = <<"println(7); ", "println(7); ", "fun g() { b = 1; } ">>
  /\ pc = "done"
  /\ result = "panic"
  /\ out = <<>>

----------------------------------------------------------------------------
(* vm/src/chunk.rs and vm/src/vm.rs on chunks built by hand, as the tests *)
(* of chunk.rs and vm.rs build them                                       *)

MaxCode == 3

\* the line the tests of vm.rs give every opcode
ChunkLine == 1

\* Chunk::new()
ChunkNew == [code |-> <<>>, lines |-> <<>>, constants |-> <<>>, status |-> "ok"]

ChunkValues == {NumberValue(6), NumberValue(3), StringValue("a")}

\* the variants of Opcode without data
Opcodes ==
  {"Return", "Not", "True", "False", "Nil", "Equal", "Greater", "Less",
   "Negate", "Add", "Multiply", "Subtract", "Divide"}

\* vm.rs, tests::test_interpret
TestChunk ==
  push_code(
    push_code(
      push_code(
        push_constant(push_constant(ChunkNew, NumberValue(1), ChunkLine),
                      NumberValue(2), ChunkLine),
        Op("Add"), ChunkLine),
      Op("Negate"), ChunkLine),
    Op("Return"), ChunkLine)

\* let mut chunk = Chunk::new();
ChunkCreate ==
  /\ pc = "chunk_new"
  /\ vm' = [vm EXCEPT !.parser = ChunkNew]
  /\ pc' = "chunk"
  /\ UNCHANGED <<result, parts, source, error>>
  /\ UNCHANGED treeVars

\* test_interpret up to `let mut vm = VM::new(chunk);`
ChunkTest ==
  /\ pc = "chunk_new"
  /\ vm' = [vm EXCEPT !.parser = TestChunk]
  /\ pc' = "vm_interpret"
  /\ UNCHANGED <<result, parts, source, error>>
  /\ UNCHANGED treeVars

\* chunk.push_constant(value, line)
ChunkPushConstant ==
  /\ pc = "chunk"
  /\ Len(vm.parser.code) < MaxCode
  /\ \E value \in ChunkValues :
       vm' = [vm EXCEPT !.parser = push_constant(@, value, ChunkLine)]
  /\ UNCHANGED <<pc, result, parts, source, error>>
  /\ UNCHANGED treeVars

\* chunk.push_code(opcode, line)
ChunkPushCode ==
  /\ pc = "chunk"
  /\ Len(vm.parser.code) < MaxCode
  /\ \E name \in Opcodes :
       vm' = [vm EXCEPT !.parser = push_code(@, Op(name), ChunkLine)]
  /\ UNCHANGED <<pc, result, parts, source, error>>
  /\ UNCHANGED treeVars

\* let mut vm = VM::new(chunk); vm.interpret()
ChunkRun ==
  /\ pc = "chunk"
  /\ pc' = "vm_interpret"
  /\ UNCHANGED <<vm, result, parts, source, error>>
  /\ UNCHANGED treeVars

NextChunk ==
  \/ ChunkCreate
  \/ ChunkTest
  \/ ChunkPushConstant
  \/ ChunkPushCode
  \/ ChunkRun
  \/ VmStep
  \/ VmFinish

InitChunk == InitAt({<<"">>}, "chunk_new") /\ envCall = NoCall

SpecChunk == InitChunk /\ [][NextChunk]_vars

----------------------------------------------------------------------------
(* runner.rs up to `let statements = parser.parse()?;` on sources that the *)
(* parser accepts, rejects, or leaves unfinished                          *)

MaxStubs == 2

\* pieces of statements, complete or not
Stubs ==
  {"{ ", "} ", "( ", ") ", "; ", ", ", "var ", "fun ", "f ", "1 ", "+ ", "= ",
   "if ", "else ", "while ", "return ", "! ", "? ", ": ", "and "}

ParseInputs ==
  Sequences(Stubs, MaxStubs) \cup SyncInputs
    \cup {<<s>> : s \in Scenarios \cup Fragments}

InitParse == InitWith(ParseInputs)

NextParse == Scan \/ ParseDeclaration \/ Parse

\* run() is scanning or parsing: a step of NextParse is enabled
Running == pc \in {"scan", "parse"}

\* run() is sequential code: as long as a step is enabled, one is taken.
\* This is weak fairness of NextParse, with its enabling condition written
\* as Running and its steps as the steps that change the state.
ParseFairness == []<>(~Running) \/ []<><<TRUE>>_vars

SpecParse == InitParse /\ [][NextParse]_vars /\ ParseFairness

----------------------------------------------------------------------------
(* C11 *)

IsEof(token) == token.kind.type = "Eof"

\* C11: the token sequence of every source is finite (at most one token per
\* character, plus Eof), Eof occurs only as the last token, the collected
\* sequence ends with it, and once Eof has been yielded every further next()
\* yields None.
C11_ExactlyOneEofLast ==
  /\ Len(tokens) <= Len(source) + 1
  /\ \A i \in 1..Len(tokens) : IsEof(tokens[i]) => i = Len(tokens)
  /\ pc = "parse" => tokens # <<>> /\ IsEof(tokens[Len(tokens)])
  /\ (tokens # <<>> /\ IsEof(tokens[Len(tokens)])) =>
        /\ ~next_token(scanner).some
        /\ ~next_token(next_token(scanner).s).some

\* a source with an operator, a comment and a string has been drained
C11_Witness ==
  /\ parts = <<"!=", "// d\n", "\"ab\"">>
  /\ pc = "parse"
  /\ Len(tokens) = 3
  /\ IsEof(tokens[3])
  /\ ~next_token(scanner).some

----------------------------------------------------------------------------
(* C12 *)

\* the lexemes of tokens[i..], concatenated
RECURSIVE Lexemes(_, _)
Lexemes(toks, i) ==
  IF i > Len(toks) THEN "" ELSE toks[i].lexeme \o Lexemes(toks, i + 1)

CharAt(str, i) == SubSeq(str, i, i)

\* str[i..] without its whitespace and its `//` comments; the characters of a
\* string literal, quotes included, are kept as they are
RECURSIVE Stripped(_, _, _)
Stripped(str, i, mode) ==
  IF i > Len(str) THEN ""
  ELSE IF mode = "string"
  THEN CharAt(str, i)
         \o Stripped(str, i + 1, IF CharAt(str, i) = "\"" THEN "code"
                                 ELSE "string")
  ELSE IF mode = "comment"
  THEN Stripped(str, i + 1, IF CharAt(str, i) = "\n" THEN "code"
                            ELSE "comment")
  ELSE IF CharAt(str, i) \in {" ", "\r", "\t", "\n"}
  THEN Stripped(str, i + 1, "code")
  ELSE IF CharAt(str, i) = "/" /\ i < Len(str) /\ CharAt(str, i + 1) = "/"
  THEN Stripped(str, i + 2, "comment")
  ELSE CharAt(str, i)
         \o Stripped(str, i + 1, IF CharAt(str, i) = "\"" THEN "string"
                                 ELSE "code")

\* the pieces every character of which belongs to a token, a comment or
\* whitespace, with every string literal closed
LexicalPieces == Pieces \ {"@", "\"c"}

\* C12: once a source made of operators, string literals, numbers, words,
\* comments and whitespace has been scanned, the lexemes of its tokens, in
\* order, concatenate to the source without its whitespace and comments.
C12_LexemesAreVerbatim ==
  (pc = "parse" /\ \A i \in DOMAIN parts : parts[i] \in LexicalPieces) =>
    Lexemes(tokens, 1) = Stripped(source, 1, "code")

----------------------------------------------------------------------------
(* C13 *)

WhileExample == "var x = 0; while (x < 3) { x = x + 1; } println(x);"

\* the frames allocated after global and top: one per executed loop body
BlockFrames == {h \in DOMAIN heap : h > Top}

\* C13: the example prints 3 and run() succeeds; in every loop
\* `var x = 0; while (x < N) { x = x + 1; } println(x);` no assignment ever
\* creates a binding, no block frame ever holds x, and at the end the top
\* frame holds x = N, exactly N bodies were executed and N was printed.
C13_WhileUpdatesEnclosingBinding ==
  /\ (parts = <<WhileExample>> /\ pc = "done") =>
        /\ result = "Ok"
        /\ out = <<"3">>
        /\ heap[Top].values = [n \in {"x"} |-> NumberValue(3)]
        /\ Cardinality(BlockFrames) = 3
  /\ (parts \in LoopInputs \cup {<<WhileExample>>}) =>
        /\ fresh = {}
        /\ \A h \in BlockFrames : heap[h].values = EmptyMap
  /\ (parts \in LoopInputs /\ pc = "done") =>
        /\ result = "Ok"
        /\ out = <<parts[2]>>
        /\ Display(heap[Top].values["x"]) = parts[2]
        /\ Cardinality(BlockFrames) = heap[Top].values["x"].n

\* the example has run to its end
C13_Witness ==
  /\ parts = <<WhileExample>>
  /\ pc = "done"
  /\ out = <<"3">>
  /\ Cardinality(BlockFrames) = 3

----------------------------------------------------------------------------
(* C14 *)

VmExample == "println(\"a\" + \"b\");"

\* C14: on the VM backend run() of `println("a" + "b");` returns Ok and the
\* output is the one line `ab`.
C14_VmPrintsAb ==
  (parts = <<VmExample>> /\ pc = "done") =>
    /\ result = "Ok"
    /\ vm.printed = <<"ab">>

----------------------------------------------------------------------------
(* C15 *)

\* what run() of ErrorContexts' programs prints before the failing expression
PrintedBefore(before) ==
  CASE before = "println(1); " -> <<"1">>
    [] before = "println(1); { println(2); " -> <<"1", "2">>
    [] before = "var x = 0; while (x < 3) { x = x + 1; println(x); " ->
         <<"1">>
    [] before = "fun f() { println(1); " -> <<"1">>
    [] before = "var a = 1; a = " -> <<>>
    [] before = "var a = 1; println(a = 2, " -> <<>>

\* the variables of the top frame and their values at the failing expression
DefinedBefore(before) ==
  CASE before = "var x = 0; while (x < 3) { x = x + 1; println(x); " ->
         [n \in {"x"} |-> NumberValue(1)]
    [] before = "var a = 1; a = " -> [n \in {"a"} |-> NumberValue(1)]
    [] before = "var a = 1; println(a = 2, " -> [n \in {"a"} |-> NumberValue(2)]
    [] OTHER -> EmptyMap

IsPrefix(a, b) == Len(a) <= Len(b) /\ a = SubSeq(b, 1, Len(a))

\* the top frame without the functions declared in it
TopVariables ==
  [n \in {k \in DOMAIN heap[Top].values :
            heap[Top].values[k].t # "Function"} |-> heap[Top].values[n]]

\* C15: once a statement has failed with a RuntimeError nothing more is
\* interpreted; for a failing expression at top level, in a block, in a loop
\* body, in a function body, in an assignment and among call arguments, no
\* println, assignment or declaration that follows it ever takes effect and
\* the effects that precede it are there when the run ends.
C15_RuntimeErrorStopsAtOnce ==
  /\ interpreted = "err" => pc \in {"return", "done"}
  /\ parts \in ErrorInputs =>
        /\ IsPrefix(out, PrintedBefore(parts[1]))
        /\ pc = "done" =>
              /\ interpreted = "err"
              /\ out = PrintedBefore(parts[1])
              /\ TopVariables = DefinedBefore(parts[1])
              /\ index <= Len(statements)

\* a loop body has failed in its first iteration, after its first println
C15_Witness ==
  /\ parts = <<"var x = 0; while (x < 3) { x = x + 1; println(x); ", "-nil",
               "; println(9); } println(4);">>
  /\ pc = "done"
  /\ interpreted = "err"
  /\ out = <<"1">>

----------------------------------------------------------------------------
(* C16 *)

\* the Value of a literal of Initials, and what println shows of it
InitialValue(text) ==
  CASE text = "1" -> NumberValue(1)
    [] text = "2" -> NumberValue(2)
    [] text = "\"s\"" -> StringValue("s")
    [] text = "nil" -> NilValue

InitialShown(text) ==
  CASE text = "1" -> "1" [] text = "2" -> "2" [] text = "\"s\"" -> "s"
    [] text = "nil" -> "nil"

\* the binding of a in the top frame, once declared
OuterIs(value) ==
  (heap # <<>> /\ "a" \in DOMAIN heap[Top].values) =>
    heap[Top].values["a"] = value

\* C16: every block runs in a frame of its own whose parent is the frame the
\* block was entered from; a declaration of a inside a block never changes
\* the outer a, the uses inside read the inner a, and the use after the
\* block reads the outer a, with the value the block assigned to it when it
\* did so before declaring its own.
C16_BlockScopesItsDeclarations ==
  /\ (parts \in BlockInputs /\ heap # <<>>) =>
        /\ fresh = {}
        /\ \A h \in BlockFrames : heap[h].parent = h - 1
  /\ parts \in ShadowInputs =>
        /\ OuterIs(InitialValue(parts[2]))
        /\ pc = "done" =>
              /\ out = <<InitialShown(parts[4]), InitialShown(parts[2])>>
              /\ heap[3].values = [n \in {"a"} |-> InitialValue(parts[4])]
  /\ parts \in AssignThenShadowInputs =>
        /\ OuterIs(InitialValue(parts[2])) \/ OuterIs(InitialValue(parts[4]))
        /\ pc = "done" =>
              /\ out = <<"7", InitialShown(parts[4])>>
              /\ heap[Top].values["a"] = InitialValue(parts[4])
              /\ heap[3].values = [n \in {"a"} |-> NumberValue(7)]
  /\ parts \in NestedShadowInputs =>
        /\ OuterIs(InitialValue(parts[2]))
        /\ pc = "done" =>
              /\ out = <<"8", InitialShown(parts[4]), InitialShown(parts[2])>>
              /\ heap[3].values = [n \in {"a"} |-> InitialValue(parts[4])]
              /\ heap[4].values = [n \in {"a"} |-> NumberValue(8)]

\* a block has shadowed a string with nil and the run is over
C16_Witness ==
  /\ parts = <<"var a = ", "\"s\"", "; { var a = ", "nil",
               "; println(a); } println(a);">>
  /\ pc = "done"
  /\ out = <<"nil", "s">>
  /\ Len(heap) = 3

----------------------------------------------------------------------------
(* C17 *)

\* C17: a call of assign on frame env of a chain with distance d either
\* panics, when the chain has fewer than d frames above env, or returns the
\* value and leaves every frame as it was except frame env - d, the frame d
\* parent links above env, whose map differs only in holding the value under
\* the identifier.
C17_AssignWritesOneFrame ==
  pc = "done" =>
    IF envCall.distance >= envCall.env
    THEN result = "panic" /\ envCall.after = <<>>
    ELSE /\ result = "Ok"
         /\ envCall.returned = Some(envCall.value)
         /\ Len(envCall.after) = Len(envCall.frames)
         /\ \A h \in DOMAIN envCall.frames :
              /\ envCall.after[h].parent = envCall.frames[h].parent
              /\ h # envCall.env - envCall.distance =>
                    envCall.after[h] = envCall.frames[h]
              /\ h = envCall.env - envCall.distance =>
                    /\ DOMAIN envCall.after[h].values =
                         DOMAIN envCall.frames[h].values
                           \cup {envCall.identifier}
                    /\ \A n \in DOMAIN envCall.after[h].values :
                         envCall.after[h].values[n] =
                           IF n = envCall.identifier THEN envCall.value
                           ELSE envCall.frames[h].values[n]

\* b was overwritten two links above the frame the call was made on, whose
\* own b and its parent's b are still there
C17_Witness ==
  /\ pc = "done"
  /\ envCall.env = 3
  /\ envCall.distance = 2
  /\ envCall.identifier = "b"
  /\ \A h \in 1..3 : "b" \in DOMAIN envCall.frames[h].values
  /\ envCall.after[1].values["b"] = envCall.value
  /\ envCall.after[2].values["b"] # envCall.value
  /\ envCall.after[3].values["b"] # envCall.value

----------------------------------------------------------------------------
(* C18 *)

\* the type of the value an operand of EqualityOperands evaluates to; two
\* different operands of one type are different values of it
OperandType(text) ==
  CASE text \in {"1", "2"} -> "Number"
    [] text \in {"\"s\"", "\"t\""} -> "String"
    [] text \in {"true", "false"} -> "Bool"
    [] text = "nil" -> "Nil"
    [] text \in {"println", "clock"} -> "Function"

Shown(bool) == IF bool THEN "true" ELSE "false"

\* C18: `A == B` and `A != B` print a Bool when A and B are both Numbers,
\* both Strings or both Bools, `==` whether they are the same value and
\* `!=` the opposite; for every other pair, Nil with Nil and a function with
\* a function included, the evaluation is a RuntimeError and nothing is
\* printed.
C18_EqualityWithinOneType ==
  (parts \in EqualityInputs /\ pc = "done") =>
    IF OperandType(parts[2]) = OperandType(parts[6])
         /\ OperandType(parts[2]) \in {"Number", "String", "Bool"}
    THEN /\ interpreted = "ok"
         /\ out = <<Shown((parts[2] = parts[6]) = (parts[4] = "=="))>>
    ELSE /\ interpreted = "err"
         /\ out = <<>>

\* two different strings were found different, and nil was not compared
C18_Witness ==
  /\ pc = "done"
  /\ \/ /\ parts = <<"println(", "\"s\"", " ", "!=", " ", "\"t\"", ");">>
        /\ out = <<"true">>
     \/ /\ parts = <<"println(", "nil", " ", "==", " ", "nil", ");">>
        /\ interpreted = "err"

----------------------------------------------------------------------------
(* C19 *)

\* what println shows for an operand of TruthOperands
OperandShown(text) ==
  CASE text = "\"\"" -> ""
    [] text = "\"s\"" -> "s"
    [] text = "println" -> "function"
    [] OTHER -> text

\* the output of a construct of TruthContexts whose condition is the
\* operand text, under the rule that only false is falsy
TruthOutput(context, text) ==
  LET truthy == text # "false" IN
  CASE context = TruthIf -> IF truthy THEN <<"A">> ELSE <<"B">>
    [] context = TruthWhile -> IF truthy THEN <<"A", "B">> ELSE <<"B">>
    [] context = TruthTernary -> IF truthy THEN <<"A">> ELSE <<"B">>
    [] context = TruthAndLeft -> IF truthy THEN <<"A">> ELSE <<"false">>
    [] context = TruthAndRight ->
         IF truthy THEN <<OperandShown(text)>> ELSE <<"false">>
    [] context = TruthOrLeft ->
         IF truthy THEN <<OperandShown(text)>> ELSE <<"B">>
    [] context = TruthOrRight ->
         IF truthy THEN <<OperandShown(text)>> ELSE <<"false">>

\* C19: only false is falsy. With nil, 0, 1, the empty string, a string, a
\* function or true as the condition, `if` runs its first branch, `while`
\* runs its body, the ternary yields its first case, `and` goes on to its
\* right operand and `or` stops at its left one; with false each does the
\* opposite.
C19_OnlyFalseIsFalsy ==
  (parts \in TruthInputs /\ pc = "done") =>
    /\ interpreted = "ok"
    /\ out = TruthOutput(<<parts[1], parts[3]>>, parts[2])

\* if (nil) {A} else {B} executed A
C19_Witness ==
  /\ pc = "done"
  /\ parts = <<TruthIf[1], "nil", TruthIf[2]>>
  /\ out = <<"A">>

----------------------------------------------------------------------------
(* C20 *)

\* the parser after declaration() failed with the result stmt
Synchronized(stmt) == synchronize(report_error(stmt.p, stmt.err))

\* the tokens between the place of the error and the place where parsing
\* resumes
Skipped(stmt) ==
  {tokens[i + 1] : i \in stmt.p.current .. Synchronized(stmt).current - 1}

\* C20: when a declaration fails with a syntax error, the error is
\* recorded, parsing resumes where the token just consumed is `;` or the
\* upcoming token is `fun`, `var` or Eof, and no `fun` or `var` token is
\* among the tokens skipped to get there.
C20_SynchronizeKeepsDeclarations ==
  (pc = "parse" /\ ~is_at_and(TheParser)
     /\ ~declaration_stmt(TheParser).ok) =>
    LET stmt == declaration_stmt(TheParser)
        after == Synchronized(stmt)
    IN /\ after.errors = Append(stmt.p.errors, stmt.err)
       /\ \/ is_at_and(after)
          \/ previous(after).kind.type = "Semicolon"
          \/ peek(after).kind.type \in {"Fun", "Var"}
       /\ \A token \in Skipped(stmt) : token.kind.type \notin {"Fun", "Var"}

----------------------------------------------------------------------------
(* C21 *)

\* the opcode parse_prefix emits for a literal operand of VmOperands when
\* the chunk already holds `held` constants
LiteralCode(text, held) ==
  CASE text = "true" -> Op("True")
    [] text = "false" -> Op("False")
    [] text = "nil" -> Op("Nil")
    [] OTHER -> [op |-> "Constant", index |-> held]

IsConstant(text) == text \notin {"true", "false", "nil"}

\* the code of A, then the code of B, for two literal operands
OperandsCode(a, b) ==
  <<LiteralCode(a, 0), LiteralCode(b, IF IsConstant(a) THEN 1 ELSE 0)>>

ArithmeticOpcode(operator) ==
  CASE operator = "+" -> "Add"
    [] operator = "-" -> "Subtract"
    [] operator = "*" -> "Multiply"
    [] operator = "/" -> "Divide"

\* the run is past Parser::parse on a source of the form A op B
Compiled(operators) ==
  /\ pc # "vm_parse"
  /\ Len(parts) = 5
  /\ parts[3] \in operators

\* C21: compiling `A op B` for op among + - * / succeeds and emits the code
\* of A, the code of B and then the one opcode Add, Subtract, Multiply or
\* Divide.
C21_ArithmeticCompiles ==
  Compiled({"+", "-", "*", "/"}) =>
    /\ vm.parser.status = "ok"
    /\ vm.parser.code =
         OperandsCode(parts[1], parts[5])
           \o <<Op(ArithmeticOpcode(parts[3]))>>

----------------------------------------------------------------------------
(* C22 *)

\* the opcodes that follow the operand of a prefix expression
PrefixCode(prefix) ==
  CASE prefix = "!" -> <<Op("Not")>>
    [] prefix = "!!" -> <<Op("Not"), Op("Not")>>
    [] prefix = "-" -> <<Op("Negate")>>

\* C22: compiling `!A` succeeds and emits the code of A followed by Not
\* (`!!A`: by Not, Not), as `-A` emits the code of A followed by Negate.
C22_BangEmitsNot ==
  (pc # "vm_parse" /\ parts \in VmUnaryInputs) =>
    /\ vm.parser.status = "ok"
    /\ vm.parser.code = <<LiteralCode(parts[2], 0)>> \o PrefixCode(parts[1])

----------------------------------------------------------------------------
(* C23 *)

ComparisonCode(operator) ==
  CASE operator = "==" -> <<Op("Equal")>>
    [] operator = "!=" -> <<Op("Equal"), Op("Not")>>
    [] operator = "<" -> <<Op("Less")>>
    [] operator = "<=" -> <<Op("Greater"), Op("Not")>>
    [] operator = ">" -> <<Op("Greater")>>
    [] operator = ">=" -> <<Op("Less"), Op("Not")>>

\* the Number a literal of VmOperands denotes
NumberOf(text) == IF text = "6" THEN 6 ELSE 3

\* the truth of `a operator b` for two integers
Ordered(operator, a, b) ==
  CASE operator = "<" -> a < b
    [] operator = "<=" -> a <= b
    [] operator = ">" -> a > b
    [] operator = ">=" -> a >= b

\* C23: compiling `A op B` for a comparison op succeeds and emits, after the
\* code of A and the code of B, Equal for ==, Equal Not for !=, Less for <,
\* Greater Not for <=, Greater for >, Less Not for >=; and when A and B are
\* Numbers the run of <, <=, >, >= ends with the one value Bool(A op B) on
\* the stack.
C23_ComparisonsCompileAndRun ==
  Compiled({"==", "!=", "<", "<=", ">", ">="}) =>
    /\ vm.parser.status = "ok"
    /\ vm.parser.code =
         OperandsCode(parts[1], parts[5]) \o ComparisonCode(parts[3])
    /\ (/\ pc = "done"
        /\ parts[3] \in {"<", "<=", ">", ">="}
        /\ {parts[1], parts[5]} \subseteq {"6", "3"}) =>
          /\ result = "Ok"
          /\ vm.stack = <<BoolValue(Ordered(parts[3], NumberOf(parts[1]),
                                            NumberOf(parts[5])))>>

\* 3 <= 6 ran Greater, Not and left true; 6 >= 6 ran Less, Not and left true
C23_Witness ==
  /\ pc = "done"
  /\ \/ parts = <<"3", " ", "<=", " ", "6">>
     \/ parts = <<"6", " ", ">=", " ", "6">>
  /\ vm.ip = 4
  /\ vm.stack = <<BoolValue(TRUE)>>

----------------------------------------------------------------------------
(* C24 *)

\* the chunk as a listing: each Constant opcode with the value it loads
Listing(p) ==
  [i \in 1..Len(p.code) |->
     IF p.code[i].op = "Constant"
     THEN [op |-> "Constant", value |-> p.constants[p.code[i].index + 1]]
     ELSE p.code[i]]

Load(n) == [op |-> "Constant", value |-> NumberValue(n)]

\* the opcodes of one binary operator
OperatorCode(operator) ==
  IF operator \in {"+", "-", "*", "/"}
  THEN <<Op(ArithmeticOpcode(operator))>>
  ELSE ComparisonCode(operator)

\* the precedence levels of the grammar: factor over term over comparison
Level(operator) ==
  CASE operator \in {"*", "/"} -> 3
    [] operator \in {"+", "-"} -> 2
    [] OTHER -> 1

\* a o1 b o2 c: o2 first when it binds tighter than o1, else left to right
ChainCode(a, o1, b, o2, c) ==
  IF Level(o2) > Level(o1)
  THEN <<Load(a), Load(b), Load(c)>> \o OperatorCode(o2) \o OperatorCode(o1)
  ELSE <<Load(a), Load(b)>> \o OperatorCode(o1) \o <<Load(c)>>
         \o OperatorCode(o2)

\* C24: `12 o1 6 o2 2` compiles with o2 applied first when its precedence
\* is higher than o1's and left to right otherwise; `-12 o 6` negates 12
\* before o is applied; 1 + 2 * 3 compiles to Constant 1, Constant 2,
\* Constant 3, Multiply, Add; 1 + 2 + 3 to Constant 1, Constant 2, Add,
\* Constant 3, Add; and -(1 + 2) * 2 to Constant 1, Constant 2, Add, Negate,
\* Constant 2, Multiply.
C24_PrecedenceClimbing ==
  pc # "vm_parse" =>
    /\ parts \in VmChainInputs =>
         /\ vm.parser.status = "ok"
         /\ Listing(vm.parser) = ChainCode(12, parts[3], 6, parts[7], 2)
    /\ parts \in VmNegatedInputs =>
         /\ vm.parser.status = "ok"
         /\ Listing(vm.parser) =
              <<Load(12), Op("Negate"), Load(6)>> \o OperatorCode(parts[4])
    /\ parts \in VmExamples =>
         /\ vm.parser.status = "ok"
         /\ Listing(vm.parser) =
              CASE parts = <<"1 + 2 * 3">> -> ChainCode(1, "+", 2, "*", 3)
                [] parts = <<"1 + 2 + 3">> -> ChainCode(1, "+", 2, "+", 3)
                [] OTHER -> <<Load(1), Load(2), Op("Add"), Op("Negate"),
                              Load(2), Op("Multiply")>>

----------------------------------------------------------------------------
(* C25 *)

\* the opcode the VM is about to execute
Upcoming ==
  IF pc = "vm_interpret" /\ vm.ip < Len(vm.parser.code)
  THEN vm.parser.code[vm.ip + 1].op
  ELSE "none"

\* the stack from the bottom up to `drop` values below the top
Below(drop) == SubSeq(vm.stack, 1, Len(vm.stack) - drop)

\* the top of the stack (b) and the value under it (a)
TopB == vm.stack[Len(vm.stack)]

TopA == vm.stack[Len(vm.stack) - 1]

IsInteger(value) == value.t = "Number" /\ "n" \in DOMAIN value

\* value is the f64 quotient a / b of two integers, b nonzero
IsQuotient(value, a, b) ==
  /\ value.t = "Number"
  /\ Denominator(value) # 0
  /\ Numerator(value) * b = a * Denominator(value)

\* value is what the arithmetic or ordering opcode makes of integers a, b
IsResult(opcode, value, a, b) ==
  CASE opcode = "Subtract" -> value = NumberValue(a - b)
    [] opcode = "Multiply" -> value = NumberValue(a * b)
    [] opcode = "Divide" -> IsQuotient(value, a, b)
    [] opcode = "Less" -> value = BoolValue(a < b)
    [] opcode = "Greater" -> value = BoolValue(a > b)

\* the step fails with this message
FailsWith(message) ==
  /\ pc' = "done"
  /\ result' = "Err"
  /\ error' = message

\* a step of one of the five opcodes: on two integers, on a top value that
\* is no Number, on a second value that is no Number
BinaryNumberStep ==
  Upcoming \in {"Subtract", "Multiply", "Divide", "Less", "Greater"} =>
    /\ (Len(vm.stack) >= 2 /\ IsInteger(TopA) /\ IsInteger(TopB)) =>
         /\ pc' = "vm_interpret"
         /\ Len(vm'.stack) = Len(vm.stack) - 1
         /\ Below(2) = SubSeq(vm'.stack, 1, Len(vm.stack) - 2)
         /\ IsResult(Upcoming, vm'.stack[Len(vm'.stack)], TopA.n, TopB.n)
    /\ (Len(vm.stack) >= 1 /\ TopB.t # "Number") =>
         FailsWith("expected a number")
    /\ (Len(vm.stack) >= 2 /\ TopB.t = "Number" /\ TopA.t # "Number") =>
         FailsWith("expected a number")

\* C25: a step of Subtract, Multiply, Divide, Less or Greater on a stack
\* whose two top values are the integers a (pushed first) and b replaces
\* them by a-b, a*b, a/b, Bool(a<b) or Bool(a>b) and leaves the rest of the
\* stack alone; when b, or a under a Number b, is not a Number the run fails
\* with "expected a number".
C25_BinaryNumberOpcodes == [][BinaryNumberStep]_vars

\* Constant 6, Constant 3, Subtract left 3; Constant 3, Constant 6, Divide
\* left a half; Constant "a", Constant 3, Less failed
C25_Witness ==
  /\ pc \in {"vm_interpret", "done"}
  /\ vm.ip = 3
  /\ Len(vm.parser.code) = 3
  /\ \/ /\ vm.parser.constants = <<NumberValue(6), NumberValue(3)>>
        /\ vm.parser.code[3] = Op("Subtract")
        /\ vm.stack = <<NumberValue(3)>>
     \/ /\ vm.parser.constants = <<NumberValue(3), NumberValue(6)>>
        /\ vm.parser.code[3] = Op("Divide")
        /\ vm.stack = <<VmNumber(1, 2)>>
     \/ /\ vm.parser.constants = <<StringValue("a"), NumberValue(3)>>
        /\ vm.parser.code[3] = Op("Less")
        /\ error = "expected a number"

----------------------------------------------------------------------------
(* C26 *)

\* the text of a value by the value-to-text rules: a whole number without
\* a fraction part, a string as it is, true, false, nil
Text(value) ==
  CASE value.t = "Number" -> ToString(value.n)
    [] value.t = "String" -> value.s
    [] value.t = "Bool" -> IF value.b THEN "true" ELSE "false"
    [] value.t = "Nil" -> "nil"

Whole(value) == value.t = "Number" => IsInteger(value)

\* a step of Add on a (pushed first) and b
AddStep ==
  (Upcoming = "Add" /\ Len(vm.stack) >= 2 /\ Whole(TopA) /\ Whole(TopB)) =>
    IF TopA.t = "String" \/ TopB.t = "String"
    THEN /\ pc' = "vm_interpret"
         /\ vm'.stack = Below(2) \o <<StringValue(Text(TopA) \o Text(TopB))>>
    ELSE IF TopA.t = "Number" /\ TopB.t = "Number"
    THEN /\ pc' = "vm_interpret"
         /\ vm'.stack = Below(2) \o <<NumberValue(TopA.n + TopB.n)>>
    ELSE /\ pc' = "done"
         /\ result' = "Err"

\* the chunk of test_interpret has run: Constant 1, Constant 2, Add,
\* Negate, Return
TestRan == pc = "done" /\ vm.parser = TestChunk

\* C26: Add replaces a and b by the String of the text of a followed by the
\* text of b when one of them is a String, by their sum when both are
\* Numbers, and fails otherwise; and the chunk of test_interpret runs all
\* its five opcodes and ends without error.
C26_AddConcatenatesOrSums ==
  /\ [][AddStep]_vars
  /\ [](TestRan => (result = "Ok" /\ vm.ip = 5))

\* test_interpret ended: Return printed the negated sum and emptied the stack
C26_Witness ==
  /\ TestRan
  /\ vm.printed = <<"Some(Number(-3.0))", "Result: []">>

----------------------------------------------------------------------------
(* C27 *)

\* exactly Nil and Bool(false) are falsy
Truthy(value) == value \notin {NilValue, BoolValue(FALSE)}

\* a step of Not on v, a step of Equal on a and b
TruthStep ==
  /\ (Upcoming = "Not" /\ Len(vm.stack) >= 1) =>
       /\ pc' = "vm_interpret"
       /\ vm'.stack = Below(1) \o <<BoolValue(~Truthy(TopB))>>
  /\ (Upcoming = "Equal" /\ Len(vm.stack) >= 2) =>
       /\ pc' = "vm_interpret"
       /\ vm'.stack = Below(2) \o <<BoolValue(Truthy(TopA) = Truthy(TopB))>>

\* C27: Not replaces the top value v by Bool(not truthy(v)) and Equal
\* replaces the two top values a, b by Bool(truthy(a) = truthy(b)), where
\* exactly Nil and Bool(false) are falsy.
C27_NotAndEqualUseTruthiness == [][TruthStep]_vars

\* the Numbers 6 and 3 compared equal; nil compared equal to false; nil was
\* negated to true
C27_Witness ==
  /\ pc = "done"
  /\ vm.ip = Len(vm.parser.code)
  /\ vm.stack = <<BoolValue(TRUE)>>
  /\ \/ /\ vm.parser.constants = <<NumberValue(6), NumberValue(3)>>
        /\ vm.parser.code[3] = Op("Equal")
     \/ vm.parser.code = <<Op("Nil"), Op("False"), Op("Equal")>>
     \/ vm.parser.code = <<Op("Nil"), Op("Not")>>

----------------------------------------------------------------------------
(* C28 *)

\* the chunk under construction or in the VM
TheChunk == vm.parser

HasChunk == pc \in {"chunk", "vm_interpret", "done"}

\* the positions of the Constant opcodes among the first n opcodes
ConstantsUpTo(chunk, n) == {i \in 1..n : chunk.code[i].op = "Constant"}

\* code and lines have one length, and the k-th Constant opcode indexes the
\* k-th constant, the last of them being the last constant
ChunkShape(chunk) ==
  /\ Len(chunk.code) = Len(chunk.lines)
  /\ \A i \in 1..Len(chunk.code) :
       chunk.code[i].op = "Constant" =>
         /\ chunk.code[i].index < Len(chunk.constants)
         /\ chunk.code[i].index + 1 = Cardinality(ConstantsUpTo(chunk, i))
  /\ Len(chunk.constants) =
       Cardinality(ConstantsUpTo(chunk, Len(chunk.code)))

IsPrefixOf(short, long) ==
  /\ Len(short) <= Len(long)
  /\ SubSeq(long, 1, Len(short)) = short

\* a push keeps what the chunk holds and adds one opcode with its line,
\* and one constant exactly when the opcode is a Constant, which then
\* indexes that constant
PushStep ==
  (pc = "chunk" /\ pc' = "chunk") =>
    /\ Len(TheChunk'.code) = Len(TheChunk.code) + 1
    /\ IsPrefixOf(TheChunk.code, TheChunk'.code)
    /\ IsPrefixOf(TheChunk.lines, TheChunk'.lines)
    /\ IsPrefixOf(TheChunk.constants, TheChunk'.constants)
    /\ IF TheChunk'.code[Len(TheChunk'.code)].op = "Constant"
       THEN /\ Len(TheChunk'.constants) = Len(TheChunk.constants) + 1
            /\ TheChunk'.code[Len(TheChunk'.code)].index =
                 Len(TheChunk.constants)
       ELSE TheChunk'.constants = TheChunk.constants

\* C28: after any sequence of push_code and push_constant calls, code and
\* lines have the same length and every Constant opcode has an index below
\* the length of constants; each push_constant appends its value to
\* constants and emits the opcode that indexes it, and no push changes a
\* constant, an opcode or a line that is already there.
C28_ChunkArraysAgree ==
  /\ [](HasChunk => ChunkShape(TheChunk))
  /\ [][PushStep]_vars

\* two constants with an opcode in between: Constant 0 loads 6 and
\* Constant 1 loads "a"
C28_Witness ==
  /\ pc = "chunk"
  /\ TheChunk.code =
       <<[op |-> "Constant", index |-> 0], Op("Not"),
         [op |-> "Constant", index |-> 1]>>
  /\ TheChunk.constants = <<NumberValue(6), StringValue("a")>>
  /\ TheChunk.lines = <<ChunkLine, ChunkLine, ChunkLine>>

----------------------------------------------------------------------------
(* C29 *)

\* the cursor is on a token of the list, whose last token is the only Eof
CursorInList ==
  /\ current + 1 <= Len(tokens)
  /\ \A i \in 1..Len(tokens) : IsEof(tokens[i]) <=> i = Len(tokens)

Parsing == pc = "parse"

\* one declaration attempt of the loop of parse(): no access outside the
\* list, and the cursor moves forward or ends on Eof
AttemptStep ==
  (Parsing /\ ~is_at_and(TheParser)) =>
    /\ ~declaration(TheParser).p.panic
    /\ current' + 1 <= Len(tokens)
    /\ current' > current \/ IsEof(tokens[current' + 1])

\* C29: while parse() runs the cursor is on a token of the list; every
\* declaration attempt, successful or not, moves the cursor forward or
\* leaves it on Eof without an access outside the list; and parse()
\* returns.
C29_ParseTerminates ==
  /\ [](Parsing => CursorInList)
  /\ [][AttemptStep]_vars
  /\ (Parsing ~> ~Parsing)

\* parse() returned after a declaration failed and was synchronized
C29_Witness ==
  /\ pc = "resolve"
  /\ errors # <<>>
  /\ current + 1 = Len(tokens)
  /\ Len(tokens) > 2

----------------------------------------------------------------------------
(* C30 *)

\* the number of values an opcode takes from the stack
Needs(opcode) ==
  CASE opcode \in {"Add", "Subtract", "Multiply", "Divide", "Less", "Greater",
                   "Equal"} -> 2
    [] opcode \in {"Negate", "Not", "Return"} -> 1
    [] OTHER -> 0

\* Parser::parse returned Ok and the VM runs or has run the chunk
Accepted ==
  /\ pc \in {"vm_interpret", "done"}
  /\ vm.parser.status = "ok"

\* C30: when the compiler accepts the source, the VM finds on the stack the
\* operands of every opcode it executes (no "empty stack" error, no unwrap
\* of an empty stack), and a run that ends without a type error leaves
\* exactly one value.
C30_StackNeverUnderflows ==
  Accepted =>
    /\ Len(vm.stack) >= Needs(Upcoming)
    /\ error # "empty stack"
    /\ result # "panic"
    /\ (pc = "done" /\ result = "Ok") => Len(vm.stack) = 1
    /\ (pc = "done" /\ result = "Err") =>
         error \in {"expected a number", "only numbers can be negated"}

\* -(1 + 2) * 2 left -6; "a" + 1 + nil left a1nil; -("a") was a type error
C30_Witness ==
  /\ pc = "done"
  /\ \/ parts = <<"-(1 + 2) * 2">> /\ vm.stack = <<NumberValue(0 - 6)>>
     \/ parts = <<"\"a\" + 1 + nil">> /\ vm.stack = <<StringValue("a1nil")>>
     \/ parts = <<"-(\"a\")">> /\ error = "only numbers can be negated"

====
